---- MODULE Spec2Model ----
(***************************************************************************)
(* Synchronization coordination of the metadata aggregator: the sync lock *)
(* and the cutover lock kept in the MongoDB "locks" collection             *)
(* (cfdb/services/locks.py), the API driven refresh pipeline               *)
(* (cfdb/services/sync.py) and the file gateway that reads the records the *)
(* pipeline replaces (dcc2cvh/cvh/api/routers/data.py), the POST /sync     *)
(* handler (cfdb/api/routers/sync.py) and the byte range negotiation       *)
(* (parse_range_header of cfdb/services/drs.py).                           *)
(*                                                                         *)
(* Time.  The locks are stamped with datetime.utcnow(); the model's wall   *)
(* clock utcnow counts hours, so STALE_LOCK_THRESHOLD = timedelta(hours=1) *)
(* is 1.  wait_for_cutover measures asyncio's monotonic loop clock; the    *)
(* model's loop_time counts minutes, so CUTOVER_WAIT_TIMEOUT = 60.0 s is 1 *)
(* and a poll interval of 0.1 s is shorter than one unit of it.            *)
(*                                                                         *)
(* Strings that the code transforms (provider names) are sequences of     *)
(* one-character strings.                                                  *)
(***************************************************************************)
EXTENDS Integers, Sequences, FiniteSets, TLC

\* ------------------------------------------------------------------ bounds
NumTasks == 2

MaxNow == 2

NumRequests == 1

NumWaiters == 1

MaxLoopTime == 2

NumReaders == 1

NumTriggers == 2

MaxSpecLen == 4

MaxSize == 3

\* the size of the file a transfer job copies is at most MaxSourceSize bytes
MaxSourceSize == 3

\* callers of rate_limit
NumCallers == 3

\* the limiter's clock runs to MaxSemTime
MaxSemTime == 3

\* TTLSemaphore(limit, interval) with limit in 1..MaxLimit, interval in 1..MaxInterval
MaxLimit == 2

MaxInterval == 2

\* download_file(..., max_retries) with max_retries in 0..MaxRetries
MaxRetries == 3

\* ------------------------------------------------------- program constants
STALE_LOCK_THRESHOLD == 1

CUTOVER_WAIT_TIMEOUT == 1

LOCKS_COLLECTION == "locks"

SYNC_LOCK_ID == "sync"

CUTOVER_LOCK_ID == "cutover"

\* os.getenv("SYNC_API_KEY", ""): the key the deployment is configured with
SYNC_API_KEY == "key"

\* ------------------------------------------------------ provider registry
\* dcc_registry.py (the registry sync.py imports as cfdb.dcc_registry is the
\* one the gateway imports as dcc2cvh.dcc_registry)
DCC_4DN == <<"4", "d", "n">>

DCC_HUBMAP == <<"h", "u", "b", "m", "a", "p">>

DCC_CONFIG == {DCC_4DN, DCC_HUBMAP}

\* str.lower() on the characters the inputs are drawn from
Lower(c) ==
    CASE c = "D" -> "d"
      [] c = "N" -> "n"
      [] c = "H" -> "h"
      [] c = "U" -> "u"
      [] c = "B" -> "b"
      [] c = "M" -> "m"
      [] c = "A" -> "a"
      [] c = "P" -> "p"
      [] c = "X" -> "x"
      [] OTHER -> c

RECURSIVE LStrip(_)
LStrip(s) == IF s # <<>> /\ Head(s) = " " THEN LStrip(Tail(s)) ELSE s

RECURSIVE RStrip(_)
RStrip(s) ==
    IF s # <<>> /\ s[Len(s)] = " " THEN RStrip(SubSeq(s, 1, Len(s) - 1)) ELSE s

\* name.lower().strip()
normalize_dcc_name(name) == RStrip(LStrip([i \in 1..Len(name) |-> Lower(name[i])]))

\* sorted(DCC_CONFIG.keys()): "4dn" sorts before "hubmap"
get_all_dcc_names == <<DCC_4DN, DCC_HUBMAP>>

Range(s) == {s[i] : i \in 1..Len(s)}

\* The provider lists a caller may pass to start_sync
\* ([] = all, mixed case, surrounding blanks, an unknown name).
DccInputs ==
    { <<>>,
      << <<" ", "H", "u", "B", "M", "A", "P", " ">> >>,
      << <<"4", "D", "N">>, <<"x", "X">> >> }

\* ------------------------------------------------------------------ state
TaskIds == 1..NumTasks

\* The collections of the metadata store that hold provider records, in the
\* order list_collection_names() returns them, and the tables of a package.
Collections == <<"dcc", "file">>

VARIABLES
    utcnow,     \* datetime.utcnow(), in hours
    locks,      \* the "locks" collection: _id -> document
    store,      \* store[c][d]: the record generations of provider d in collection c
    pc,         \* pc[t]: where the start_sync / _run_sync call of task id t stands
    now,        \* now[t]: the local `now` of try_acquire_sync_lock, which a holder's
                \*   lock keeps as started_at (kept until the task ends)
    race,       \* pairs <<a, b>>: a's acquire ran on an acquirable lock document
                \*   while b's acquire call was pending (observation only)
    names,      \* names[t]: normalized_names of start_sync
    tasks,      \* the SyncTask objects: task id -> SyncTask
    idx,        \* idx[t]: position of the `for dcc in task.dcc_names` loop
    cidx,       \* cidx[t]: position of the collection / file loop of clear and load
    exc,        \* exc[t]: an exception is propagating out of the pipeline
    cutovers,   \* how many times acquire_cutover_lock has run (observation only)
    loop_time,  \* asyncio.get_event_loop().time(), in minutes
    gpc,        \* gpc[g]: where request g stands in stream_file, or its status
    gdcc,       \* gdcc[g]: normalized_dcc of stream_file
    gdoc,       \* gdoc[g]: the record generations read as dcc_doc and file_doc
    gissue,     \* gissue[g]: the cutover lock and the clock when g was issued (observation only)
    wpc,        \* wpc[w]: where call w of wait_for_cutover stands, or its outcome
    wdcc,       \* wdcc[w]: the provider whose records the caller of w is about to read
    wstart,     \* wstart[w]: start_time of wait_for_cutover
    wlock,      \* wlock[w]: the local `lock` of wait_for_cutover
    rpc,        \* rpc[r]: where call r of is_sync_running stands, or its result
    rlock,      \* rlock[r]: the local `lock` of is_sync_running
    hpc,        \* hpc[q]: where trigger q stands in the POST /sync handler, or its status
    hdccs,      \* hdccs[q]: the query parameter `dccs` of trigger q
    hrunning,   \* hrunning[q]: a sync held the fresh, active lock when q was issued
                \*   (observation only)
    range_header,   \* the argument range_header of a parse_range_header call
    file_size,      \* its argument file_size
    parsed,         \* what the call returned or raised ([kind |-> "none"] before it)
    filedoc,    \* the fields of the file record that the gateway's lookup finds
    glocals,    \* glocals[g]: the locals of stream_file after the file lookup
    tpc,        \* where the transfer_and_stream generator stands, or how it ended
    status,     \* its local `status`
    task_status,    \* its local `task_status` (the nice_status_details it carries)
    last_position,  \* its local `last_position`
    f,          \* the position of its file object `f` after the last read
    streamed,   \* the bytes it has yielded, in order (byte i of the source is i)
    raising,    \* the exception that propagates out of it ("none": none)
    transfer_task,  \* the Globus transfer task: status, bytes written, diagnostic
    temp_file,  \* the file at temp_filename: whether it exists, and its size
    source_size,    \* the size of the file at source_path
    cli,        \* the `cfdb sync` command: where it stands, its providers, its loops
    sem,        \* the TTLSemaphore: its limit, its interval, its value
    sem_time,   \* loop.time() of the event loop that runs the limiter
    calls,      \* calls[c]: where caller c of rate_limit stands, when its permit
                \*   was granted, when its release is due, how often it has run
    dl          \* a download_file call: where it stands, its locals, its result

syncVars == <<utcnow, locks, store, pc, now, race, names, tasks, idx, cidx, exc, cutovers>>

gatewayVars == <<gpc, gdcc, gdoc, gissue>>

waiterVars == <<wpc, wdcc, wstart, wlock>>

readerVars == <<rpc, rlock>>

routerVars == <<hpc, hdccs, hrunning>>

rangeVars == <<range_header, file_size, parsed>>

streamVars == <<filedoc, glocals>>

generatorVars == <<tpc, status, task_status, last_position, f, streamed, raising>>

bridgeVars == <<generatorVars, transfer_task, temp_file, source_size>>

cliVars == <<cli>>

limiterVars == <<sem, sem_time, calls>>

downloadVars == <<dl>>

commandVars == <<cliVars, limiterVars, downloadVars>>

vars == <<syncVars, loop_time, gatewayVars, waiterVars, readerVars, routerVars, rangeVars, streamVars, bridgeVars, commandVars>>

\* the variables of the service other than those of the refresh
serviceVars == <<loop_time, gatewayVars, waiterVars, readerVars, routerVars, rangeVars, streamVars, bridgeVars>>

\* what the actions of start_sync and _run_sync leave alone
others == <<loop_time, gatewayVars, waiterVars, readerVars, routerVars, rangeVars, streamVars, bridgeVars, commandVars>>

Requests == 1..NumRequests

Waiters == 1..NumWaiters

Readers == 1..NumReaders

Triggers == 1..NumTriggers

\* ------------------------------------------------- the document store
\* update operator $set: the listed fields are written, the others are kept
Set(doc, fields) == fields @@ doc

\* find_one({"_id": id}): the document, or None (the empty set)
find_one(coll, id) == IF id \in DOMAIN coll THEN {coll[id]} ELSE {}

\* (mutant) the filter without its $or: any document with the _id matches
SyncFilterMatches_AnyDocument(doc, stale_threshold) == TRUE

\* (mutant) the filter without the staleness clause: a lock never expires
SyncFilterMatches_NoStaleClause(doc, stale_threshold) ==
    \/ "active" \notin DOMAIN doc
    \/ doc.active = FALSE

\* The filter of try_acquire_sync_lock's find_one_and_update on a document
\* with _id = SYNC_LOCK_ID.
SyncFilterMatches(doc, stale_threshold) ==
    \/ "active" \notin DOMAIN doc
    \/ doc.active = FALSE
    \/ ("started_at" \in DOMAIN doc /\ doc.started_at < stale_threshold)

SyncLockUpdate(task_id, dcc_names, n) ==
    [active |-> TRUE, task_id |-> task_id, dcc_names |-> dcc_names,
     started_at |-> n, updated_at |-> n]

\* find_one_and_update(filter, {$set: ...}, upsert=True, return_document=True).
\* A matching document is updated and returned.  When none matches, the
\* upsert inserts a document with the filter's _id: that succeeds if the
\* collection has no document with that _id and raises DuplicateKeyError
\* (the _id index is unique) if it has one.
FindOneAndUpdateSync(coll, task_id, dcc_names, n) ==
    LET upd == SyncLockUpdate(task_id, dcc_names, n)
        stale_threshold == n - STALE_LOCK_THRESHOLD
    IN  IF SYNC_LOCK_ID \in DOMAIN coll
        THEN IF SyncFilterMatches(coll[SYNC_LOCK_ID], stale_threshold)
             THEN [raised |-> FALSE,
                   coll |-> [coll EXCEPT ![SYNC_LOCK_ID] = Set(@, upd)]]
             ELSE [raised |-> TRUE, coll |-> coll]
        ELSE [raised |-> FALSE, coll |-> (SYNC_LOCK_ID :> upd) @@ coll]

\* the state of the coordination components after start-up
InitCoordination ==
    /\ utcnow = 0
    /\ locks = <<>>
    /\ store = [c \in Range(Collections) |-> [d \in DCC_CONFIG |-> {"old"}]]
    /\ pc = [t \in TaskIds |-> "idle"]
    /\ now = [t \in TaskIds |-> 0]
    /\ race = {}
    /\ names = [t \in TaskIds |-> <<>>]
    /\ tasks = <<>>
    /\ idx = [t \in TaskIds |-> 0]
    /\ cidx = [t \in TaskIds |-> 0]
    /\ exc = [t \in TaskIds |-> FALSE]
    /\ cutovers = 0
    /\ loop_time = 0
    /\ gpc = [g \in Requests |-> "idle"]
    /\ gdcc = [g \in Requests |-> <<>>]
    /\ gdoc = [g \in Requests |-> [dcc |-> "None", file |-> "None"]]
    /\ gissue = [g \in Requests |-> [active |-> FALSE, cutovers |-> 0, at |-> 0]]
    /\ wpc = [w \in Waiters |-> "idle"]
    /\ wdcc = [w \in Waiters |-> <<>>]
    /\ wstart = [w \in Waiters |-> 0]
    /\ wlock = [w \in Waiters |-> {}]
    /\ rpc = [r \in Readers |-> "idle"]
    /\ rlock = [r \in Readers |-> {}]
    /\ hpc = [q \in Triggers |-> "idle"]
    /\ hdccs = [q \in Triggers |-> <<>>]
    /\ hrunning = [q \in Triggers |-> FALSE]

\* The lock document can be taken by a call whose clock reading is n: it is
\* absent, inactive, or stamped more than the threshold before n.
Acquirable(n) ==
    \/ SYNC_LOCK_ID \notin DOMAIN locks
    \/ ~locks[SYNC_LOCK_ID].active
    \/ n - locks[SYNC_LOCK_ID].started_at > STALE_LOCK_THRESHOLD

\* ------------------------------------------------------------- start_sync
\* start_sync up to the await of find_one_and_update: the names are
\* validated and normalized, try_acquire_sync_lock reads the clock.
StartSync(t, dcc_names) ==
    /\ pc[t] = "idle"
    /\ IF \E i \in 1..Len(dcc_names) :
              normalize_dcc_name(dcc_names[i]) \notin Range(get_all_dcc_names)
       THEN /\ pc' = [pc EXCEPT ![t] = "ValueError"]
            /\ UNCHANGED <<now, names>>
       ELSE /\ pc' = [pc EXCEPT ![t] = "acquire"]
            /\ names' = [names EXCEPT ![t] =
                   IF dcc_names # <<>>
                   THEN [i \in 1..Len(dcc_names) |-> normalize_dcc_name(dcc_names[i])]
                   ELSE get_all_dcc_names]
            /\ now' = [now EXCEPT ![t] = utcnow]
    /\ UNCHANGED <<utcnow, locks, store, tasks, idx, cidx, exc, cutovers, race, others>>

\* SyncTask(id=task_id, dcc_names=normalized_names).  None is "None" for a
\* string and <<>> for a provider name.  Nothing reads the two timestamps
\* of a task: started_at is left out and completed_at is "None" or "set".
SyncTask(task_id, dcc_names) ==
    [id |-> task_id, dcc_names |-> dcc_names, status |-> "running",
     completed_at |-> "None", error |-> "None",
     current_dcc |-> <<>>, current_step |-> "None"]

\* try_acquire_sync_lock from its find_one_and_update on, and the rest of
\* start_sync.  DuplicateKeyError is not caught by try_acquire_sync_lock nor
\* by start_sync.  A returned document always carries the caller's
\* task_id, so the confirmatory find_one of lines 73-78 is evaluated on the
\* collection as the update left it.
TryAcquireSyncLock(t) ==
    /\ pc[t] = "acquire"
    /\ race' = race \cup
           {<<t, b>> : b \in {u \in TaskIds \ {t} :
                pc[u] = "acquire" /\ Acquirable(now[t]) /\ Acquirable(now[u])}}
    /\ LET r == FindOneAndUpdateSync(locks, t, names[t], now[t])
           acquired ==
               \/ r.coll[SYNC_LOCK_ID].task_id = t
               \/ (SYNC_LOCK_ID \in DOMAIN r.coll /\ r.coll[SYNC_LOCK_ID].task_id = t)
       IN  IF r.raised
           THEN /\ pc' = [pc EXCEPT ![t] = "DuplicateKeyError"]
                /\ now' = [now EXCEPT ![t] = 0]
                /\ UNCHANGED <<locks, tasks>>
           ELSE /\ locks' = r.coll
                /\ IF acquired
                   THEN /\ tasks' = (t :> SyncTask(t, names[t])) @@ tasks
                        /\ pc' = [pc EXCEPT ![t] = "run"]
                        /\ UNCHANGED now
                   ELSE /\ pc' = [pc EXCEPT ![t] = "RuntimeError"]
                        /\ now' = [now EXCEPT ![t] = 0]
                        /\ UNCHANGED tasks
    /\ names' = [names EXCEPT ![t] = <<>>]
    /\ UNCHANGED <<utcnow, store, idx, cidx, exc, cutovers, others>>

\* ------------------------------------------------ _run_sync / _sync_dccs
\* (mutant) a loop that takes the first provider of the list every time
LoopHead_First(task, i) ==
    [task EXCEPT !.current_dcc = task.dcc_names[1], !.current_step = "downloading"]

\* head of `for dcc in task.dcc_names` up to the await of download_file
LoopHead(task, i) ==
    [task EXCEPT !.current_dcc = task.dcc_names[i], !.current_step = "downloading"]

\* `except Exception` and `finally` of _run_sync, up to the await of release
Failed(task) ==
    [task EXCEPT !.status = "failed", !.error = "error", !.completed_at = "set",
                 !.current_dcc = <<>>, !.current_step = "None"]

\* (mutant) a finally block that leaves current_step as the pipeline set it
Completed_KeepsStep(task) ==
    [task EXCEPT !.status = "completed", !.completed_at = "set",
                 !.current_dcc = <<>>]

\* end of the try block and `finally` of _run_sync, up to the await of release
Completed(task) ==
    [task EXCEPT !.status = "completed", !.completed_at = "set",
                 !.current_dcc = <<>>, !.current_step = "None"]

\* (mutant) an exception that ends _run_sync without its finally block
Raise_SkipsRelease(t) ==
    /\ pc' = [pc EXCEPT ![t] = "done"]
    /\ tasks' = [tasks EXCEPT ![t] = Failed(@)]

\* an exception leaves _sync_dccs outside the cutover section
Raise(t) ==
    /\ pc' = [pc EXCEPT ![t] = "release"]
    /\ tasks' = [tasks EXCEPT ![t] = Failed(@)]

\* _run_sync enters _sync_dccs: the data directories are made, which may
\* raise, and the loop over task.dcc_names is entered
RunSync(t) ==
    /\ pc[t] = "run"
    /\ \/ /\ pc' = [pc EXCEPT ![t] = "download"]
          /\ idx' = [idx EXCEPT ![t] = 1]
          /\ tasks' = [tasks EXCEPT ![t] = LoopHead(@, 1)]
       \/ /\ Raise(t)
          /\ UNCHANGED idx
    /\ UNCHANGED <<utcnow, locks, store, now, names, cidx, exc, cutovers, race, others>>

\* await download_file(url, zip_path): returns or raises
Download(t) ==
    /\ pc[t] = "download"
    /\ \/ /\ pc' = [pc EXCEPT ![t] = "extract"]
          /\ tasks' = [tasks EXCEPT ![t].current_step = "extracting"]
       \/ Raise(t)
    /\ UNCHANGED <<utcnow, locks, store, now, names, idx, cidx, exc, cutovers, race, others>>

\* extract_zip(zip_path, extract_dir): returns or raises
Extract(t) ==
    /\ pc[t] = "extract"
    /\ \/ /\ pc' = [pc EXCEPT ![t] = "acquire_cutover"]
          /\ tasks' = [tasks EXCEPT ![t].current_step = "cutover"]
       \/ Raise(t)
    /\ UNCHANGED <<utcnow, locks, store, now, names, idx, cidx, exc, cutovers, race, others>>

\* CutoverLock.__aenter__: update_one({_id: cutover}, {$set: ...}, upsert=True)
\* (nothing reads the cutover lock's started_at and completed_at: left out)
acquire_cutover_lock(coll, dcc) ==
    LET upd == [active |-> TRUE, dcc |-> dcc]
    IN  IF CUTOVER_LOCK_ID \in DOMAIN coll
        THEN [coll EXCEPT ![CUTOVER_LOCK_ID] = Set(@, upd)]
        ELSE (CUTOVER_LOCK_ID :> upd) @@ coll

\* (mutant) a release that writes nothing: the lock stays as it was taken
release_cutover_lock_Leak(coll) == coll

\* update_one({_id: cutover}, {$set: {active: False, completed_at: now}})
release_cutover_lock(coll) ==
    IF CUTOVER_LOCK_ID \in DOMAIN coll
    THEN [coll EXCEPT ![CUTOVER_LOCK_ID] = Set(@, [active |-> FALSE])]
    ELSE coll

AcquireCutover(t) ==
    /\ pc[t] = "acquire_cutover"
    /\ locks' = acquire_cutover_lock(locks, tasks[t].current_dcc)
    /\ pc' = [pc EXCEPT ![t] = "clear"]
    /\ cidx' = [cidx EXCEPT ![t] = 1]
    /\ cutovers' = cutovers + 1
    /\ UNCHANGED <<utcnow, store, now, names, tasks, idx, exc, race, others>>

\* _clear_dcc_data_async: list_collection_names(), which may raise, then one
\* delete_many({"submission": dcc}) per collection, each an await of its
\* own.  (A delete that raises is logged and the loop goes on; the store of
\* the model executes every delete.)
ClearCollection(t) ==
    /\ pc[t] = "clear"
    /\ LET c == Collections[cidx[t]]
           d == tasks[t].current_dcc
       IN  \/ /\ store' = [store EXCEPT ![c][d] = {}]
              /\ IF cidx[t] < Len(Collections)
                 THEN /\ cidx' = [cidx EXCEPT ![t] = @ + 1]
                      /\ UNCHANGED pc
                 ELSE /\ cidx' = [cidx EXCEPT ![t] = 1]
                      /\ pc' = [pc EXCEPT ![t] = "load"]
              /\ UNCHANGED exc
           \/ /\ cidx[t] = 1
              /\ exc' = [exc EXCEPT ![t] = TRUE]
              /\ cidx' = [cidx EXCEPT ![t] = 0]
              /\ pc' = [pc EXCEPT ![t] = "release_cutover"]
              /\ UNCHANGED store
    /\ UNCHANGED <<utcnow, locks, now, names, tasks, idx, cutovers, race, others>>

\* _load_dataset_async: the records of one table are inserted with the
\* provider as their submission; insert_many may raise.
LoadTable(t) ==
    /\ pc[t] = "load"
    /\ LET c == Collections[cidx[t]]
           d == tasks[t].current_dcc
       IN  \/ /\ store' = [store EXCEPT ![c][d] = @ \cup {"new"}]
              /\ IF cidx[t] < Len(Collections)
                 THEN /\ cidx' = [cidx EXCEPT ![t] = @ + 1]
                      /\ UNCHANGED pc
                 ELSE /\ cidx' = [cidx EXCEPT ![t] = 0]
                      /\ pc' = [pc EXCEPT ![t] = "release_cutover"]
              /\ UNCHANGED exc
           \/ /\ exc' = [exc EXCEPT ![t] = TRUE]
              /\ cidx' = [cidx EXCEPT ![t] = 0]
              /\ pc' = [pc EXCEPT ![t] = "release_cutover"]
              /\ UNCHANGED store
    /\ UNCHANGED <<utcnow, locks, now, names, tasks, idx, cutovers, race, others>>

\* CutoverLock.__aexit__ (it returns False: an exception goes on propagating)
ReleaseCutover(t) ==
    /\ pc[t] = "release_cutover"
    /\ locks' = release_cutover_lock(locks)
    /\ IF exc[t]
       THEN Raise(t)
       ELSE /\ pc' = [pc EXCEPT ![t] = "cleanup"]
            /\ tasks' = [tasks EXCEPT ![t].current_step = "cleanup"]
    /\ exc' = [exc EXCEPT ![t] = FALSE]
    /\ UNCHANGED <<utcnow, store, now, names, idx, cidx, cutovers, race, others>>

\* cleanup_zip(zip_path): it logs its errors and never raises
Cleanup(t) ==
    /\ pc[t] = "cleanup"
    /\ pc' = [pc EXCEPT ![t] = "materialize"]
    /\ tasks' = [tasks EXCEPT ![t].current_step = "materializing"]
    /\ UNCHANGED <<utcnow, locks, store, now, names, idx, cidx, exc, cutovers, race, others>>

\* await _materialize_files(dcc): returns (also when the binary is missing)
\* or raises; then the next provider, or the end of _sync_dccs.
Materialize(t) ==
    /\ pc[t] = "materialize"
    /\ \/ IF idx[t] < Len(tasks[t].dcc_names)
          THEN /\ idx' = [idx EXCEPT ![t] = @ + 1]
               /\ tasks' = [tasks EXCEPT ![t] = LoopHead(@, idx[t] + 1)]
               /\ pc' = [pc EXCEPT ![t] = "download"]
          ELSE /\ tasks' = [tasks EXCEPT ![t] = Completed(@)]
               /\ pc' = [pc EXCEPT ![t] = "release"]
               /\ UNCHANGED idx
       \/ /\ Raise(t)
          /\ UNCHANGED idx
    /\ UNCHANGED <<utcnow, locks, store, now, names, cidx, exc, cutovers, race, others>>

\* (mutant) the release filter without task_id: any holder's lock is released
release_sync_lock_AnyHolder(coll, task_id, n) ==
    IF SYNC_LOCK_ID \in DOMAIN coll
    THEN [coll EXCEPT ![SYNC_LOCK_ID] =
              Set(@, [active |-> FALSE, completed_at |-> n])]
    ELSE coll

\* update_one({_id: sync, task_id: task_id}, {$set: {active: False, completed_at: now}})
release_sync_lock(coll, task_id, n) ==
    IF SYNC_LOCK_ID \in DOMAIN coll /\ coll[SYNC_LOCK_ID].task_id = task_id
    THEN [coll EXCEPT ![SYNC_LOCK_ID] =
              Set(@, [active |-> FALSE, completed_at |-> n])]
    ELSE coll

\* the await of release_sync_lock(task.id) that ends _run_sync
ReleaseSync(t) ==
    /\ pc[t] = "release"
    /\ locks' = release_sync_lock(locks, t, utcnow)
    /\ pc' = [pc EXCEPT ![t] = "done"]
    /\ idx' = [idx EXCEPT ![t] = 0]
    /\ now' = [now EXCEPT ![t] = 0]
    /\ UNCHANGED <<utcnow, store, names, tasks, cidx, exc, cutovers, race, others>>

Pipeline(t) ==
    \/ RunSync(t)
    \/ Download(t)
    \/ Extract(t)
    \/ AcquireCutover(t)
    \/ ClearCollection(t)
    \/ LoadTable(t)
    \/ ReleaseCutover(t)
    \/ Cleanup(t)
    \/ Materialize(t)
    \/ ReleaseSync(t)

Sync ==
    \/ \E t \in TaskIds, n \in DccInputs : StartSync(t, n)
    \/ \E t \in TaskIds : TryAcquireSyncLock(t)
    \/ \E t \in TaskIds : Pipeline(t)

\* -------------------------------------------------------- is_sync_running
\* (mutant) the staleness test with >= for >
is_sync_running_AtThreshold(lock, n) ==
    IF lock = {} THEN FALSE
    ELSE LET doc == CHOOSE d \in lock : TRUE
         IN  IF ~("active" \in DOMAIN doc /\ doc.active) THEN FALSE
             ELSE IF "started_at" \in DOMAIN doc
                     /\ n - doc.started_at >= STALE_LOCK_THRESHOLD
                  THEN FALSE
                  ELSE TRUE

\* the decision of is_sync_running on the document it read, at time n
is_sync_running(lock, n) ==
    IF lock = {} THEN FALSE
    ELSE LET doc == CHOOSE d \in lock : TRUE
         IN  IF ~("active" \in DOMAIN doc /\ doc.active) THEN FALSE
             ELSE IF "started_at" \in DOMAIN doc
                     /\ n - doc.started_at > STALE_LOCK_THRESHOLD
                  THEN FALSE
                  ELSE TRUE

\* lock = await find_one({"_id": SYNC_LOCK_ID})
IsSyncRunningRead(r) ==
    /\ rpc[r] = "idle"
    /\ rlock' = [rlock EXCEPT ![r] = find_one(locks, SYNC_LOCK_ID)]
    /\ rpc' = [rpc EXCEPT ![r] = "read"]
    /\ UNCHANGED <<syncVars, loop_time, gatewayVars, waiterVars, routerVars, rangeVars, streamVars, bridgeVars, commandVars>>

\* the rest of is_sync_running: it reads the clock after the document
IsSyncRunningReturn(r) ==
    /\ rpc[r] = "read"
    /\ rpc' = [rpc EXCEPT ![r] =
           IF is_sync_running(rlock[r], utcnow) THEN "True" ELSE "False"]
    /\ UNCHANGED <<rlock, syncVars, loop_time, gatewayVars, waiterVars, routerVars, rangeVars, streamVars, bridgeVars, commandVars>>

\* ------------------------------------------------------- wait_for_cutover
CutoverActive(coll) ==
    /\ CUTOVER_LOCK_ID \in DOMAIN coll
    /\ coll[CUTOVER_LOCK_ID].active

\* start_time = loop.time(); the caller is about to read the records of dcc.
\* A call starts while the clock of the model has room left to run past the
\* timeout.
WaitForCutover(w, dcc) ==
    /\ wpc[w] = "idle"
    /\ loop_time + CUTOVER_WAIT_TIMEOUT < MaxLoopTime
    /\ wpc' = [wpc EXCEPT ![w] = "find_one"]
    /\ wdcc' = [wdcc EXCEPT ![w] = dcc]
    /\ wstart' = [wstart EXCEPT ![w] = loop_time]
    /\ UNCHANGED <<wlock, syncVars, loop_time, gatewayVars, readerVars, routerVars, rangeVars, streamVars, bridgeVars, commandVars>>

\* lock = await find_one({"_id": CUTOVER_LOCK_ID})
WaitFindOne(w) ==
    /\ wpc[w] = "find_one"
    /\ wlock' = [wlock EXCEPT ![w] = find_one(locks, CUTOVER_LOCK_ID)]
    /\ wpc' = [wpc EXCEPT ![w] = "check"]
    /\ UNCHANGED <<wdcc, wstart, syncVars, loop_time, gatewayVars, readerVars, routerVars, rangeVars, streamVars, bridgeVars, commandVars>>

\* (mutant) a wait without timeout
TimedOut_Never(elapsed) == FALSE

\* `if elapsed > CUTOVER_WAIT_TIMEOUT:`
TimedOut(elapsed) == elapsed > CUTOVER_WAIT_TIMEOUT

\* `if not lock or not lock.get("active"): return`, then the timeout test
WaitCheck(w) ==
    /\ wpc[w] = "check"
    /\ wpc' = [wpc EXCEPT ![w] =
           IF wlock[w] = {} \/ \A d \in wlock[w] : ~d.active THEN "returned"
           ELSE IF TimedOut(loop_time - wstart[w]) THEN "TimeoutError"
           ELSE "sleep"]
    /\ UNCHANGED <<wdcc, wstart, wlock, syncVars, loop_time, gatewayVars, readerVars, routerVars, rangeVars, streamVars, bridgeVars, commandVars>>

\* await asyncio.sleep(CUTOVER_POLL_INTERVAL) is over
WaitWake(w) ==
    /\ wpc[w] = "sleep"
    /\ wpc' = [wpc EXCEPT ![w] = "find_one"]
    /\ UNCHANGED <<wdcc, wstart, wlock, syncVars, loop_time, gatewayVars, readerVars, routerVars, rangeVars, streamVars, bridgeVars, commandVars>>

Waiter(w) ==
    \/ \E d \in DCC_CONFIG : WaitForCutover(w, d)
    \/ WaitFindOne(w)
    \/ WaitCheck(w)
    \/ WaitWake(w)

\* ------------------------------------------------------------ stream_file
\* The names a client may put in the path of GET /data/{dcc}/{local_id}.
DccPathInputs ==
    { <<"4", "D", "N">>, <<"h", "u", "b", "m", "a", "p">>, <<"x", "X">> }

\* Two answers that stand for what the rest of stream_file (steps 2 to 7:
\* metadata, resolver, access policy, backend) gives once the file record is
\* read, a success and a failure; the steps themselves are ParseMetadata to
\* StreamBackend below.
StreamOutcomes == {"200", "502"}

\* stream_file up to its first await: the provider name is validated.  No
\* step of stream_file reads or waits for the cutover lock.
StreamFile(g, dcc) ==
    /\ gpc[g] = "idle"
    /\ LET normalized_dcc == normalize_dcc_name(dcc)
       IN  IF normalized_dcc \notin Range(get_all_dcc_names)
           THEN /\ gpc' = [gpc EXCEPT ![g] = "400"]
                /\ UNCHANGED <<gdcc, gissue>>
           ELSE /\ gpc' = [gpc EXCEPT ![g] = "lookup_dcc"]
                /\ gdcc' = [gdcc EXCEPT ![g] = normalized_dcc]
                /\ gissue' = [gissue EXCEPT ![g] =
                       [active |-> CutoverActive(locks)
                                   /\ locks[CUTOVER_LOCK_ID].dcc = normalized_dcc,
                        cutovers |-> cutovers, at |-> loop_time]]
    /\ UNCHANGED <<gdoc, syncVars, loop_time, waiterVars, readerVars, routerVars, rangeVars, streamVars, bridgeVars, commandVars>>

\* dcc_doc = await api.db.dcc.find_one(...): None is a 500
LookupDcc(g) ==
    /\ gpc[g] = "lookup_dcc"
    /\ LET found == store["dcc"][gdcc[g]]
       IN  IF found = {}
           THEN /\ gpc' = [gpc EXCEPT ![g] = "500"]
                /\ UNCHANGED gdoc
           ELSE /\ gpc' = [gpc EXCEPT ![g] = "lookup_file"]
                /\ \E v \in found : gdoc' = [gdoc EXCEPT ![g].dcc = v]
    /\ UNCHANGED <<gdcc, gissue, syncVars, loop_time, waiterVars, readerVars, routerVars, rangeVars, streamVars, bridgeVars, commandVars>>

\* file_doc = await api.db.file.find_one(...): None is a 404
LookupFile(g) ==
    /\ gpc[g] = "lookup_file"
    /\ LET found == store["file"][gdcc[g]]
       IN  IF found = {}
           THEN /\ gpc' = [gpc EXCEPT ![g] = "404"]
                /\ UNCHANGED gdoc
           ELSE /\ gpc' = [gpc EXCEPT ![g] = "respond"]
                /\ \E v \in found : gdoc' = [gdoc EXCEPT ![g].file = v]
    /\ UNCHANGED <<gdcc, gissue, syncVars, loop_time, waiterVars, readerVars, routerVars, rangeVars, streamVars, bridgeVars, commandVars>>

\* the response of stream_file for the record it found
Respond(g) ==
    /\ gpc[g] = "respond"
    /\ \E code \in StreamOutcomes : gpc' = [gpc EXCEPT ![g] = code]
    /\ UNCHANGED <<gdcc, gdoc, gissue, syncVars, loop_time, waiterVars, readerVars, routerVars, rangeVars, streamVars, bridgeVars, commandVars>>

Gateway(g) ==
    \/ \E d \in DccPathInputs : StreamFile(g, d)
    \/ LookupDcc(g)
    \/ LookupFile(g)
    \/ Respond(g)

\* ------------------------------------- stream_file after the file lookup
\* A URL is kept as urllib.parse.urlparse splits it: scheme, netloc and the
\* path as a sequence of words.  The URL of a record without access_url has
\* no component.
NoUrl == [scheme |-> "", netloc |-> "", path |-> <<>>]

\* The access_url values of the file records: absent, not a drs:// URI, a
\* drs:// URI without object id, and DRS URIs of two objects.
AccessUrls ==
    { NoUrl,
      [scheme |-> "https", netloc |-> "host", path |-> <<"/", "abc123">>],
      [scheme |-> "drs", netloc |-> "host", path |-> <<"/">>],
      [scheme |-> "drs", netloc |-> "host", path |-> <<"/", "abc123">>],
      [scheme |-> "drs", netloc |-> "host", path |-> <<"/", "forbidden", "-", "7">>] }

\* data_access_level of a file record, and of a Search API entity
AccessLevels == {"None", "public", "consortium", "protected"}

\* persistent_id of a file record: absent, without a UUID in it, with one
PersistentIds == {"None", "HBM123.ABCD.456", "uuid"}

\* The file records a lookup may find after a load.  valid:
\* FileMetadataModel accepts the record's fields.  status is absent until
\* stream_file writes it together with the access level.
FileDocs ==
    [valid : BOOLEAN, access_url : AccessUrls,
     data_access_level : AccessLevels, persistent_id : PersistentIds,
     status : {"None"}]

\* The Authorization headers a client may send (<<>>: none).
AuthorizationInputs == { <<>>, <<"Bearer ", "token">>, <<"token">>, <<"Bearer ">> }

\* DRSAccessMethod: its type and its access_url (NoUrl: None)
DRSAccessMethod(type, access_url) == [type |-> type, access_url |-> access_url]

HttpsUrl == [scheme |-> "https", netloc |-> "data", path |-> <<"/", "f">>]

GlobusUrl == [scheme |-> "globus", netloc |-> "endpoint", path |-> <<"/", "f">>]

\* The access_methods lists of the DRS objects: none, one direct method
\* (https, s3), Globus alone, Globus listed before a direct method, a direct
\* method without URL next to Globus, Globus without URL or with a URL of
\* another scheme, a method of another type.
AccessMethodLists ==
    { <<>>,
      <<DRSAccessMethod("https", HttpsUrl)>>,
      <<DRSAccessMethod("s3", HttpsUrl)>>,
      <<DRSAccessMethod("globus", GlobusUrl)>>,
      <<DRSAccessMethod("globus", GlobusUrl), DRSAccessMethod("https", HttpsUrl)>>,
      <<DRSAccessMethod("https", NoUrl), DRSAccessMethod("globus", GlobusUrl)>>,
      <<DRSAccessMethod("globus", NoUrl)>>,
      <<DRSAccessMethod("globus", HttpsUrl)>>,
      <<DRSAccessMethod("ftp", HttpsUrl)>> }

\* DRSObject.size is Optional[int]: NoSize stands for None
NoSize == 0 - 1

\* How the GET of fetch_access_metadata ends: status 200 with an entity
\* (its data_access_level, "None" if it has none), status 200 with a body
\* that json() rejects, 404, another status, a timeout, a connection error.
SearchResponses ==
    { [kind |-> "200", status |-> "Published", data_access_level |-> l] :
          l \in AccessLevels }
        \cup { [kind |-> k, status |-> "None", data_access_level |-> "None"] :
                 k \in {"invalid_body", "404", "500", "TimeoutError", "ClientError"} }

\* the headers stream_file has set on no response yet
NoHeaders == [content_length |-> NoSize, content_range |-> <<>>]

\* the locals before the file record is parsed.  queries counts the calls
\* of fetch_access_metadata of the request; strategy, status_code, headers,
\* body and upstream_range are what steps 7 of stream_file decides.
NoLocals ==
    [auth_token |-> <<>>, file_doc |-> [valid |-> FALSE, access_url |-> NoUrl,
                                         data_access_level |-> "None",
                                         persistent_id |-> "None",
                                         status |-> "None"],
     resolver |-> "unset", drs_methods |-> <<>>, drs_size |-> NoSize,
     data_access_level |-> "unset", queries |-> 0, search |-> "unset",
     strategy |-> "unset", range |-> <<>>, headers |-> NoHeaders,
     body |-> "none", upstream_range |-> <<>>]

\* str.lower() on the words of the messages
LowerWord(w) ==
    CASE w = "DRS" -> "drs"
      [] w = "API" -> "api"
      [] w = "HTTP" -> "http"
      [] w = "Authentication" -> "authentication"
      [] w = "Access" -> "access"
      [] w = "Network" -> "network"
      [] w = "Cannot" -> "cannot"
      [] OTHER -> w

LowerWords(msg) == [i \in 1..Len(msg) |-> LowerWord(msg[i])]

\* `words in msg`: the words occur in msg one after the other
ContainsWords(msg, words) ==
    \E i \in 0..(Len(msg) - Len(words)) : SubSeq(msg, i + 1, i + Len(words)) = words

\* path.lstrip("/")
RECURSIVE LStripSlash(_)
LStripSlash(p) == IF p # <<>> /\ Head(p) = "/" THEN LStripSlash(Tail(p)) ELSE p

\* parse_drs_uri: ok is False where it raises ValueError
parse_drs_uri(url) ==
    LET hostname == url.netloc
        object_id == LStripSlash(url.path)
    IN  IF url.scheme # "drs" THEN [ok |-> FALSE, hostname |-> "", object_id |-> <<>>]
        ELSE IF hostname = "" \/ object_id = <<>>
             THEN [ok |-> FALSE, hostname |-> "", object_id |-> <<>>]
        ELSE [ok |-> TRUE, hostname |-> hostname, object_id |-> object_id]

\* What fetch_drs_object raises for a response that is not a DRS object:
\* ValueError (JSONDecodeError and pydantic's ValidationError are
\* subclasses of it) or an Exception with a message.
fetch_drs_object_raises(response, hostname, object_id) ==
    CASE response.kind = "invalid_body" ->
             [type |-> "ValueError", msg |-> <<>>]
      [] response.kind = "404" ->
             [type |-> "Exception",
              msg |-> <<"DRS", "object", "not", "found", ":">> \o object_id]
      [] response.kind = "401" ->
             [type |-> "Exception",
              msg |-> <<"Authentication", "required", "for", "this", "DRS", "object">>]
      [] response.kind = "403" ->
             [type |-> "Exception",
              msg |-> <<"Access", "forbidden", "for", "this", "DRS", "object">>]
      [] response.kind = "TimeoutError" ->
             [type |-> "Exception",
              msg |-> <<"DRS", "service", "timeout", "for">> \o object_id]
      [] response.kind = "ClientError" ->
             [type |-> "Exception",
              msg |-> <<"Network", "error", "fetching", "DRS", "metadata", ":",
                        "Cannot", "connect", "to", "host", hostname>>]
      [] OTHER ->
             [type |-> "Exception",
              msg |-> <<"DRS", "API", "error", ":", "HTTP", response.kind>>]

\* the except clauses of step 5 of stream_file
ResolverStatus(e) ==
    IF e.type = "ValueError" THEN "400"
    ELSE LET msg == LowerWords(e.msg)
         IN  IF ContainsWords(msg, <<"not", "found">>) THEN "404"
             ELSE IF ContainsWords(msg, <<"authentication">>)
                     \/ ContainsWords(msg, <<"forbidden">>) THEN "401"
             ELSE IF ContainsWords(msg, <<"timeout">>) THEN "504"
             ELSE "502"

\* "Enforce access control based on data_access_level": a restricted level
\* is a 403 if the request has no credential
AccessDecision(level, auth_token) ==
    IF level \in {"consortium", "protected"} /\ auth_token = <<>>
    THEN "403"
    ELSE "backend"

\* Steps 2 to 4 of stream_file: the record is parsed (a record the model
\* rejects is used for its access_url alone), the credential is taken from
\* the Authorization header, a record without access_url is a 501.
ParseMetadata(g, authorization) ==
    /\ gpc[g] = "respond"
    /\ LET auth_token ==
               IF authorization # <<>> /\ Head(authorization) = "Bearer "
               THEN Tail(authorization)
               ELSE authorization
       IN  /\ glocals' = [glocals EXCEPT ![g].auth_token = auth_token,
                                         ![g].file_doc = filedoc]
           /\ gpc' = [gpc EXCEPT ![g] =
                  IF ~filedoc.valid /\ filedoc.access_url = NoUrl THEN "500"
                  ELSE IF filedoc.access_url = NoUrl THEN "501"
                  ELSE "fetch_drs"]
    /\ UNCHANGED <<filedoc, gdcc, gdoc, gissue, syncVars, loop_time, waiterVars,
                   readerVars, routerVars, rangeVars, bridgeVars, commandVars>>

\* (mutant) the Search API is asked whether or not a level is cached
UncachedLevel_Always(file_doc) == file_doc.persistent_id = "uuid"

\* `if data_access_level is None:` with a persistent_id that holds a UUID:
\* the level is not cached and the Search API can be asked for it
UncachedLevel(file_doc) ==
    file_doc.data_access_level = "None" /\ file_doc.persistent_id = "uuid"

\* Step 5, await drs.fetch_drs_object(...), and what follows it without an
\* await: for the provider with tiered access the cached level is read and,
\* if there is one, enforced.
FetchDrsObject(g, response) ==
    /\ gpc[g] = "fetch_drs"
    /\ LET file_doc == glocals[g].file_doc
           uri == parse_drs_uri(file_doc.access_url)
           level == file_doc.data_access_level
       IN  IF ~uri.ok
           THEN /\ gpc' = [gpc EXCEPT ![g] = "400"]
                /\ glocals' = [glocals EXCEPT ![g].resolver = "malformed reference"]
           ELSE IF response.kind # "object"
           THEN /\ gpc' = [gpc EXCEPT ![g] =
                       ResolverStatus(fetch_drs_object_raises(
                           response, uri.hostname, uri.object_id))]
                /\ glocals' = [glocals EXCEPT ![g].resolver = response.kind]
           ELSE IF gdcc[g] # DCC_HUBMAP
           THEN /\ gpc' = [gpc EXCEPT ![g] = "backend"]
                /\ glocals' = [glocals EXCEPT ![g].resolver = "object",
                                              ![g].drs_methods = response.methods,
                                              ![g].drs_size = response.size]
           ELSE /\ glocals' = [glocals EXCEPT ![g].resolver = "object",
                                              ![g].drs_methods = response.methods,
                                              ![g].drs_size = response.size,
                                              ![g].data_access_level = level]
                /\ gpc' = [gpc EXCEPT ![g] =
                       IF UncachedLevel(file_doc)
                       THEN "fetch_access"
                       ELSE AccessDecision(level, glocals[g].auth_token)]
    /\ UNCHANGED <<filedoc, gdcc, gdoc, gissue, syncVars, loop_time, waiterVars,
                   readerVars, routerVars, rangeVars, bridgeVars, commandVars>>

\* (mutant) fetch_access_metadata without the except clause of the timeout
fetch_access_metadata_TimeoutRaises(response) ==
    IF response.kind = "200"
    THEN [raised |-> FALSE, found |-> TRUE, status |-> response.status,
          data_access_level |-> response.data_access_level]
    ELSE [raised |-> response.kind = "TimeoutError", found |-> FALSE,
          status |-> "None", data_access_level |-> "None"]

\* fetch_access_metadata: a HuBMAPSearchResult for status 200 with a JSON
\* body, None (found is False) for every other end of the GET; its except
\* clauses let no exception of the GET out.
fetch_access_metadata(response) ==
    IF response.kind = "200"
    THEN [raised |-> FALSE, found |-> TRUE, status |-> response.status,
          data_access_level |-> response.data_access_level]
    ELSE [raised |-> FALSE, found |-> FALSE,
          status |-> "None", data_access_level |-> "None"]

\* metadata = await fetch_access_metadata(uuid): with a level the request
\* goes on to cache it, without one to the backend (data_access_level is
\* None, which the enforcement lets pass).  An exception out of the call
\* would reach the last except clause of stream_file.
FetchAccessMetadata(g, response) ==
    /\ gpc[g] = "fetch_access"
    /\ LET metadata == fetch_access_metadata(response)
       IN  IF metadata.raised
           THEN /\ gpc' = [gpc EXCEPT ![g] = "500"]
                /\ glocals' = [glocals EXCEPT ![g].queries = @ + 1,
                                              ![g].search = response.kind]
           ELSE IF metadata.found /\ metadata.data_access_level # "None"
           THEN /\ gpc' = [gpc EXCEPT ![g] = "cache_level"]
                /\ glocals' = [glocals EXCEPT
                       ![g].queries = @ + 1,
                       ![g].search = response.kind,
                       ![g].data_access_level = metadata.data_access_level]
           ELSE /\ gpc' = [gpc EXCEPT ![g] = "backend"]
                /\ glocals' = [glocals EXCEPT ![g].queries = @ + 1,
                                              ![g].search = response.kind]
    /\ UNCHANGED <<filedoc, gdcc, gdoc, gissue, syncVars, loop_time, waiterVars,
                   readerVars, routerVars, rangeVars, bridgeVars, commandVars>>

\* How api.db.file.update_one ends: the update is applied, or the driver
\* raises (the store is unreachable, the write is refused).
UpdateOutcomes == {"applied", "PyMongoError"}

\* await api.db.file.update_one(..., {$set: {status, data_access_level}}),
\* then the enforcement on the fetched level.  The await is in no try of
\* its own: what update_one raises reaches the last except clause of
\* stream_file, which answers 500.
CacheAccessLevel(g, outcome) ==
    /\ gpc[g] = "cache_level"
    /\ IF outcome = "applied"
       THEN /\ filedoc' = [filedoc EXCEPT
                   !.status = "Published",
                   !.data_access_level = glocals[g].data_access_level]
            /\ gpc' = [gpc EXCEPT ![g] =
                   AccessDecision(glocals[g].data_access_level,
                                  glocals[g].auth_token)]
       ELSE /\ gpc' = [gpc EXCEPT ![g] = "500"]
            /\ UNCHANGED filedoc
    /\ UNCHANGED <<glocals, gdcc, gdoc, gissue, syncVars, loop_time, waiterVars,
                   readerVars, routerVars, rangeVars, bridgeVars, commandVars>>

\* ------------------------------------------------------------ POST /sync
\* The keys a client may send as X-API-Key.
ApiKeyInputs == {"key", "wrong"}

\* What the expression `is_sync_running()` of the handler evaluates to:
\* cfdb.services.sync.is_sync_running is `async def` and the call is not
\* awaited, so the value is a coroutine object; its body never runs.
is_sync_running_call == "coroutine"

\* (mutant) a truth test that no value passes
Truthy_Never(v) == FALSE

\* bool(v) of a condition: None and False are false, any other object
\* (a coroutine object has neither __bool__ nor __len__) is true
Truthy(v) == v \notin {"None", "False"}

\* verify_api_key and the handler `sync` up to its first raise or await.
\* The handler goes on to start_sync (lines 66-83: 202, or 400 on
\* ValueError, or 409 on RuntimeError) only if the condition of line 60 is
\* false.
SyncTrigger(q, x_api_key, dccs) ==
    /\ hpc[q] = "idle"
    /\ IF x_api_key # SYNC_API_KEY
       THEN /\ hpc' = [hpc EXCEPT ![q] = "401"]
            /\ UNCHANGED <<hdccs, hrunning>>
       ELSE /\ hdccs' = [hdccs EXCEPT ![q] = dccs]
            /\ hrunning' = [hrunning EXCEPT ![q] =
                   is_sync_running(find_one(locks, SYNC_LOCK_ID), utcnow)]
            /\ hpc' = [hpc EXCEPT ![q] =
                   IF Truthy(is_sync_running_call) THEN "409" ELSE "start_sync"]
    /\ UNCHANGED <<syncVars, loop_time, gatewayVars, waiterVars, readerVars, rangeVars, streamVars, bridgeVars, commandVars>>

\* ----------------------------------------------------- parse_range_header
\* "bytes="
BYTES_PREFIX == <<"b", "y", "t", "e", "s", "=">>

\* The characters the range specifications are built from: digits, the
\* separators of the grammar, a blank, and two characters that are not part
\* of it.
RangeAlphabet == {"0", "1", "-", ",", " ", "_", "x"}

RangeSpecs == UNION {[1..n -> RangeAlphabet] : n \in 0..MaxSpecLen}

\* The calls of the documentation, on a file of 1000 bytes.
ExampleSize == 1000

ExampleHeaders ==
    { BYTES_PREFIX \o <<"0", "-", "9", "9">>,
      BYTES_PREFIX \o <<"9", "0", "0", "-">>,
      BYTES_PREFIX \o <<"-", "1", "0">>,
      BYTES_PREFIX \o <<"1", "0", "0", "0", "-", "1", "0", "1", "0">>,
      BYTES_PREFIX \o <<"1", "0", "0", "0", "-">>,
      BYTES_PREFIX \o <<"5", "0", "-", "1", "0">>,
      BYTES_PREFIX \o <<"0", "-", "4", "9", "9", ",", "6", "0", "0", "-", "7">>,
      BYTES_PREFIX \o <<"1", "_", "0", "-", "2", "_", "0">> }

\* The calls parse_range_header is applied to: <<range_header, file_size>>.
RangeCalls ==
    ({BYTES_PREFIX \o s : s \in RangeSpecs} \X (0..MaxSize))
        \cup ({<<"B", "y", "t", "e", "s", "=">> \o s : s \in RangeSpecs} \X {MaxSize})
        \cup (RangeSpecs \X {MaxSize})
        \cup (ExampleHeaders \X {ExampleSize})

Digits == {"0", "1", "2", "3", "4", "5", "6", "7", "8", "9"}

DigitValue(c) ==
    CASE c = "0" -> 0 [] c = "1" -> 1 [] c = "2" -> 2 [] c = "3" -> 3
      [] c = "4" -> 4 [] c = "5" -> 5 [] c = "6" -> 6 [] c = "7" -> 7
      [] c = "8" -> 8 [] c = "9" -> 9

\* the value of a sequence of decimal digits
RECURSIVE DecimalValue(_)
DecimalValue(ds) ==
    IF ds = <<>> THEN 0
    ELSE 10 * DecimalValue(SubSeq(ds, 1, Len(ds) - 1)) + DigitValue(ds[Len(ds)])

\* str.strip()
Strip(s) == RStrip(LStrip(s))

\* s.startswith(p)
StartsWith(s, p) == Len(s) >= Len(p) /\ SubSeq(s, 1, Len(p)) = p

\* c in s
Contains(s, c) == \E i \in 1..Len(s) : s[i] = c

\* s.find(c) + 1 for a character that occurs in s
IndexOf(s, c) == CHOOSE i \in 1..Len(s) : s[i] = c /\ \A j \in 1..(i - 1) : s[j] # c

SelectSeqNot(s, c) == SelectSeq(s, LAMBDA x : x # c)

\* int(s) of Python: blanks around the literal are ignored, a sign may
\* precede it, and single underscores may separate its digits.
\* ok is False where int raises ValueError.
int(s) ==
    LET u == Strip(s)
        signed == u # <<>> /\ Head(u) \in {"-", "+"}
        body == IF signed THEN Tail(u) ELSE u
        wellformed ==
            /\ body # <<>>
            /\ \A i \in 1..Len(body) : body[i] \in Digits \cup {"_"}
            /\ body[1] \in Digits /\ body[Len(body)] \in Digits
            /\ \A i \in 1..(Len(body) - 1) : ~(body[i] = "_" /\ body[i + 1] = "_")
        magnitude == DecimalValue(SelectSeqNot(body, "_"))
    IN  IF ~wellformed THEN [ok |-> FALSE, val |-> 0]
        ELSE [ok |-> TRUE,
              val |-> IF signed /\ Head(u) = "-" THEN 0 - magnitude ELSE magnitude]

ValueError == [kind |-> "ValueError"]

RangeNotSatisfiableError(size) == [kind |-> "RangeNotSatisfiableError", file_size |-> size]

Min(a, b) == IF a <= b THEN a ELSE b

Max(a, b) == IF a >= b THEN a ELSE b

\* (mutant) the bounds validation without the clamp of `end`
ValidateBounds_NoClamp(start, end, size) ==
    IF start < 0 \/ end < 0 THEN ValueError
    ELSE IF start > end THEN ValueError
    ELSE IF start >= size THEN RangeNotSatisfiableError(size)
    ELSE [kind |-> "ok", start |-> start, end |-> end,
          content_length |-> end - start + 1]

\* "Validate bounds" to the return of parse_range_header
ValidateBounds(start, end, size) ==
    IF start < 0 \/ end < 0 THEN ValueError
    ELSE IF start > end THEN ValueError
    ELSE IF start >= size THEN RangeNotSatisfiableError(size)
    ELSE LET clamped == Min(end, size - 1)
         IN  [kind |-> "ok", start |-> start, end |-> clamped,
              content_length |-> clamped - start + 1]

parse_range_header(header, size) ==
    IF ~StartsWith(header, BYTES_PREFIX) THEN ValueError
    ELSE LET range_spec == Strip(SubSeq(header, 7, Len(header)))
         IN  IF Contains(range_spec, ",") THEN ValueError
             ELSE IF ~Contains(range_spec, "-") THEN ValueError
             ELSE LET i == IndexOf(range_spec, "-")
                      start_str == Strip(SubSeq(range_spec, 1, i - 1))
                      end_str == Strip(SubSeq(range_spec, i + 1, Len(range_spec)))
                  IN  IF start_str = <<>> /\ end_str # <<>>
                      THEN LET suffix_length == int(end_str)
                           IN  IF ~suffix_length.ok THEN ValueError
                               ELSE IF suffix_length.val <= 0 THEN ValueError
                               ELSE ValidateBounds(Max(0, size - suffix_length.val),
                                                   size - 1, size)
                      ELSE IF start_str # <<>> /\ end_str = <<>>
                      THEN LET start == int(start_str)
                           IN  IF ~start.ok THEN ValueError
                               ELSE ValidateBounds(start.val, size - 1, size)
                      ELSE IF start_str # <<>> /\ end_str # <<>>
                      THEN LET start == int(start_str)
                               end == int(end_str)
                           IN  IF ~start.ok \/ ~end.ok THEN ValueError
                               ELSE ValidateBounds(start.val, end.val, size)
                      ELSE ValueError

\* a call of parse_range_header returns or raises
ParseRangeHeader ==
    /\ parsed.kind = "none"
    /\ parsed' = parse_range_header(range_header, file_size)
    /\ UNCHANGED <<range_header, file_size, syncVars, loop_time, gatewayVars,
                   waiterVars, readerVars, routerVars, streamVars, bridgeVars, commandVars>>

\* ------------------------------------------- stream_file: the backend
\* The sizes of the DRS objects: None, an empty object, the documented size.
DrsSizes == {NoSize, 0, ExampleSize}

\* How the GET of fetch_drs_object ends: status 200 with a DRS object (its
\* access methods and its size), status 200 with a body that json() or the
\* pydantic models reject, another status, a timeout, a connection error.
DrsResponses ==
    { [kind |-> "object", methods |-> m, size |-> n] :
          m \in AccessMethodLists, n \in DrsSizes }
        \cup { [kind |-> k, methods |-> <<>>, size |-> NoSize] :
                 k \in {"invalid_body", "404", "401", "403", "500",
                        "TimeoutError", "ClientError"} }

\* The Range headers a client may send: none, and the documented ones.
RangeHeaderInputs == {<<>>} \cup ExampleHeaders

\* The names that `drs` has in stream_file: the functions and classes of
\* the module it imports, dcc2cvh.cvh.services.drs.  Any other name is an
\* AttributeError.
DrsModule ==
    {"DRSAccessMethod", "DRSObject", "parse_drs_uri", "fetch_drs_object",
     "extract_globus_info", "get_https_download_url", "stream_from_url"}

\* stream_from_url(url, auth_headers=None): the parameters it accepts
StreamFromUrlParams == 2

\* get_https_download_url: the URL of the first https or s3 method that
\* has one; ok is False where it raises ValueError
get_https_download_url(access_methods) ==
    LET usable == { i \in 1..Len(access_methods) :
                       /\ access_methods[i].type \in {"https", "s3"}
                       /\ access_methods[i].access_url # NoUrl }
    IN  IF usable = {} THEN [ok |-> FALSE, url |-> NoUrl]
        ELSE [ok |-> TRUE,
              url |-> access_methods[CHOOSE i \in usable :
                                        \A j \in usable : i <= j].access_url]

\* extract_globus_info: endpoint and path of the first globus method; ok is
\* False where it raises ValueError
extract_globus_info(access_methods) ==
    LET globus == { i \in 1..Len(access_methods) :
                       access_methods[i].type = "globus" }
    IN  IF globus = {} THEN [ok |-> FALSE, endpoint_id |-> "", path |-> <<>>]
        ELSE LET parsed_url ==
                     access_methods[CHOOSE i \in globus :
                                       \A j \in globus : i <= j].access_url
             IN  IF \/ parsed_url = NoUrl
                    \/ parsed_url.scheme # "globus"
                    \/ parsed_url.netloc = ""
                    \/ parsed_url.path = <<>>
                 THEN [ok |-> FALSE, endpoint_id |-> "", path |-> <<>>]
                 ELSE [ok |-> TRUE, endpoint_id |-> parsed_url.netloc,
                       path |-> parsed_url.path]

\* The call drs.stream_from_url(*args): more arguments than parameters is a
\* TypeError at the call.  The generator GETs url with auth_headers; it has
\* no parameter for a Range and sends none.
stream_from_url(args) ==
    IF Len(args) > StreamFromUrlParams
    THEN [raised |-> TRUE, url |-> NoUrl, range |-> <<>>]
    ELSE [raised |-> FALSE, url |-> args[1], range |-> <<>>]

\* what stream_file answers without a body of bytes
HttpError(status_code) ==
    [status |-> status_code, headers |-> NoHeaders, body |-> "none",
     upstream_range |-> <<>>]

\* `if has_https:` (lines 227-313).  An HTTPException raised in the try is
\* raised again, any other exception is a 502.
DirectStreaming(access_methods, size, range, authorization) ==
    LET download_url == get_https_download_url(access_methods)
        range_result ==
            IF "parse_range_header" \notin DrsModule
            THEN [kind |-> "AttributeError"]
            ELSE parse_range_header(range, size)
        chunk_gen(range_header_to_send) ==
            stream_from_url(<<download_url.url, authorization, range_header_to_send>>)
    IN  IF ~download_url.ok THEN HttpError("502")
        ELSE IF range # <<>> /\ size \in {NoSize, 0} THEN HttpError("500")
        ELSE IF range # <<>> /\ range_result.kind # "ok"
        THEN IF range_result.kind = "AttributeError"
                  \/ "RangeNotSatisfiableError" \notin DrsModule
             THEN HttpError("502")
             ELSE IF range_result.kind = "RangeNotSatisfiableError"
             THEN [HttpError("416") EXCEPT
                      !.headers.content_range = <<range_result.file_size>>]
             ELSE HttpError("400")
        ELSE IF range # <<>>
        THEN IF chunk_gen(range).raised THEN HttpError("502")
             ELSE [status |-> "206",
                   headers |-> [content_length |-> range_result.content_length,
                                content_range |-> <<range_result.start,
                                                    range_result.end, size>>],
                   body |-> "stream_from_url",
                   upstream_range |-> chunk_gen(range).range]
        ELSE IF chunk_gen(<<>>).raised THEN HttpError("502")
             ELSE [status |-> "200",
                   headers |-> [NoHeaders EXCEPT !.content_length =
                                   IF size \in {NoSize, 0} THEN NoSize ELSE size],
                   body |-> "stream_from_url",
                   upstream_range |-> chunk_gen(<<>>).range]

\* `elif has_globus:` (lines 315-362).  transfer_and_stream is an async
\* generator: the call in the try runs none of its body, so the except
\* clauses see the ValueError of extract_globus_info alone.
GlobusStreaming(access_methods, range, auth_token) ==
    IF range # <<>> THEN HttpError("501")
    ELSE IF auth_token = <<>> THEN HttpError("401")
    ELSE IF ~extract_globus_info(access_methods).ok THEN HttpError("502")
    ELSE [status |-> "200", headers |-> NoHeaders,
          body |-> "transfer_and_stream", upstream_range |-> <<>>]

\* (mutant) the choice of the backend with Globus tested first
ChooseBackend_GlobusFirst(access_methods) ==
    IF \E i \in 1..Len(access_methods) : access_methods[i].type = "globus"
    THEN "globus"
    ELSE IF \E i \in 1..Len(access_methods) :
                access_methods[i].type \in {"https", "s3"}
    THEN "https"
    ELSE "none"

\* has_globus, has_https and the if / elif / else on them
ChooseBackend(access_methods) ==
    IF \E i \in 1..Len(access_methods) :
           access_methods[i].type \in {"https", "s3"}
    THEN "https"
    ELSE IF \E i \in 1..Len(access_methods) : access_methods[i].type = "globus"
    THEN "globus"
    ELSE "none"

\* Step 7 of stream_file for a request with the Range header `range`: the
\* backend is chosen by the access methods of the DRS object, and the
\* response is built or an HTTPException raised.
StreamBackend(g, range) ==
    /\ gpc[g] = "backend"
    /\ LET access_methods == glocals[g].drs_methods
           strategy == ChooseBackend(access_methods)
           response ==
               IF strategy = "https"
               THEN DirectStreaming(access_methods, glocals[g].drs_size, range,
                                    glocals[g].auth_token)
               ELSE IF strategy = "globus"
               THEN GlobusStreaming(access_methods, range, glocals[g].auth_token)
               ELSE HttpError("501")
       IN  /\ gpc' = [gpc EXCEPT ![g] = response.status]
           /\ glocals' = [glocals EXCEPT
                  ![g].strategy = strategy,
                  ![g].range = range,
                  ![g].headers = response.headers,
                  ![g].body = response.body,
                  ![g].upstream_range = response.upstream_range]
    /\ UNCHANGED <<filedoc, gdcc, gdoc, gissue, syncVars, loop_time,
                   waiterVars, readerVars, routerVars, rangeVars, bridgeVars, commandVars>>

\* the status codes stream_file answers
ResponseStatuses ==
    {"200", "206", "400", "401", "403", "404", "416", "500", "501", "502", "504"}

\* The request is answered and the client sends its next one.
NextRequest(g) ==
    /\ gpc[g] \in ResponseStatuses
    /\ gpc' = [gpc EXCEPT ![g] = "idle"]
    /\ gdcc' = [gdcc EXCEPT ![g] = <<>>]
    /\ gdoc' = [gdoc EXCEPT ![g] = [dcc |-> "None", file |-> "None"]]
    /\ gissue' = [gissue EXCEPT ![g] = [active |-> FALSE, cutovers |-> 0, at |-> 0]]
    /\ glocals' = [glocals EXCEPT ![g] = NoLocals]
    /\ UNCHANGED <<filedoc, syncVars, loop_time, waiterVars, readerVars,
                   routerVars, rangeVars, bridgeVars, commandVars>>

Stream(g) ==
    \/ \E d \in DccPathInputs : StreamFile(g, d)
    \/ LookupDcc(g)
    \/ LookupFile(g)
    \/ \E a \in AuthorizationInputs : ParseMetadata(g, a)
    \/ \E r \in DrsResponses : FetchDrsObject(g, r)
    \/ \E r \in SearchResponses : FetchAccessMetadata(g, r)
    \/ \E o \in UpdateOutcomes : CacheAccessLevel(g, o)
    \/ \E r \in RangeHeaderInputs : StreamBackend(g, r)
    \/ NextRequest(g)

\* ------------------------------------------------- transfer_and_stream
\* f.read(8192): the bytes one read returns at most
ChunkSize == 2

\* (mutant) a poll loop that breaks on success alone
TerminalStatuses_SucceededOnly == {"SUCCEEDED"}

\* The statuses of a transfer task at which the poll loop breaks.
TerminalStatuses == {"SUCCEEDED", "FAILED"}

\* nice_status_details of a failed task: the key is absent, or a message
StatusDetails == {"absent", "permission denied"}

\* How a call of the Transfer API (submit_transfer, get_task) ends.
ApiOutcomes == {"ok", "TransferAPIError"}

\* How open() or os.remove() on temp_filename ends.
FileOutcomes == {"ok", "OSError"}

\* What the transfer job does on its next write once temp_filename was
\* removed under it: it keeps the file it has open, which has no name any
\* more, or it opens temp_filename again (a retry after a fault).
WriterOutcomes == {"keeps", "reopens"}

\* Exception(f"Globus transfer failed: {error_msg}")
TransferFailed(details) ==
    <<"Globus transfer failed:",
      IF details = "absent" THEN "Unknown error" ELSE details>>

\* (mutant) a read that starts at the beginning of the file
seek_Start(position) == 0

\* f.seek(position): where the next read starts
seek(position) == position

\* f.read(8192) at `position` of a file of `size` bytes
read(position, size) ==
    [i \in 1..Min(ChunkSize, Max(0, size - position)) |-> position + i]

\* the generator before its first step, and no task
NoTransferCall ==
    /\ tpc = "created"
    /\ status = "None"
    /\ task_status = "None"
    /\ last_position = 0
    /\ f = 0
    /\ streamed = <<>>
    /\ raising = <<>>
    /\ transfer_task = [status |-> "None", opened |-> FALSE, bytes |-> 0,
               nice_status_details |-> "absent"]
    /\ temp_file = [exists |-> FALSE, size |-> 0]

\* The first step of the generator: the configuration is checked (outside
\* the try), temp_filename is chosen, the transfer is submitted.
SubmitTransfer(configured, outcome) ==
    /\ tpc = "created"
    /\ IF ~configured
       THEN /\ tpc' = "raised"
            /\ raising' = <<"GLOBUS_ENDPOINT_ID not configured">>
            /\ UNCHANGED transfer_task
       ELSE IF outcome # "ok"
       THEN /\ tpc' = "finally"
            /\ raising' = <<outcome>>
            /\ UNCHANGED transfer_task
       ELSE /\ tpc' = "get_task"
            /\ transfer_task' = [transfer_task EXCEPT !.status = "ACTIVE"]
            /\ UNCHANGED raising
    /\ UNCHANGED <<status, task_status, last_position, f, streamed, temp_file,
                   source_size, syncVars, loop_time, gatewayVars, waiterVars,
                   readerVars, routerVars, rangeVars, streamVars, commandVars>>

\* task_status = tc.get_task(task_id); status = task_status["status"]
GetTask(outcome) ==
    /\ tpc = "get_task"
    /\ IF outcome # "ok"
       THEN /\ tpc' = "finally"
            /\ raising' = <<outcome>>
            /\ UNCHANGED <<status, task_status>>
       ELSE /\ tpc' = "read"
            /\ status' = transfer_task.status
            /\ task_status' = transfer_task.nice_status_details
            /\ UNCHANGED raising
    /\ UNCHANGED <<last_position, f, streamed, transfer_task, temp_file,
                   source_size, syncVars, loop_time, gatewayVars, waiterVars,
                   readerVars, routerVars, rangeVars, streamVars, commandVars>>

\* "Read new bytes if file exists": one chunk is read at last_position and,
\* if it is not empty, yielded.  The generator is suspended at the yield
\* with the file open.
ReadNewBytes(outcome) ==
    /\ tpc = "read"
    /\ IF ~temp_file.exists
       THEN /\ tpc' = "check"
            /\ UNCHANGED <<f, streamed, raising>>
       ELSE IF outcome # "ok"
       THEN /\ tpc' = "finally"
            /\ raising' = <<outcome>>
            /\ UNCHANGED <<f, streamed>>
       ELSE LET chunk == read(seek(last_position), temp_file.size)
            IN  /\ f' = seek(last_position) + Len(chunk)
                /\ streamed' = streamed \o chunk
                /\ tpc' = IF chunk # <<>> THEN "yield" ELSE "check"
                /\ UNCHANGED raising
    /\ UNCHANGED <<status, task_status, last_position, transfer_task, temp_file,
                   source_size, syncVars, loop_time, gatewayVars, waiterVars,
                   readerVars, routerVars, rangeVars, streamVars, commandVars>>

\* The consumer asks for the next chunk: last_position = f.tell()
Resume ==
    /\ tpc = "yield"
    /\ last_position' = f
    /\ tpc' = "check"
    /\ UNCHANGED <<status, task_status, f, streamed, raising, transfer_task, temp_file,
                   source_size, syncVars, loop_time, gatewayVars, waiterVars,
                   readerVars, routerVars, rangeVars, streamVars, commandVars>>

\* `if status in ["SUCCEEDED", "FAILED"]: break`, and what follows the
\* loop: the failure is raised, or the file is opened for the last bytes.
CheckStatus ==
    /\ tpc = "check"
    /\ IF status \notin TerminalStatuses
       THEN /\ tpc' = "sleep"
            /\ UNCHANGED <<f, raising>>
       ELSE IF status = "FAILED"
       THEN /\ tpc' = "finally"
            /\ raising' = TransferFailed(task_status)
            /\ UNCHANGED f
       ELSE /\ tpc' = "flush"
            /\ f' = seek(last_position)
            /\ UNCHANGED raising
    /\ UNCHANGED <<status, task_status, last_position, streamed, transfer_task, temp_file,
                   source_size, syncVars, loop_time, gatewayVars, waiterVars,
                   readerVars, routerVars, rangeVars, streamVars, commandVars>>

\* await asyncio.sleep(poll_interval) returns
Wake ==
    /\ tpc = "sleep"
    /\ tpc' = "get_task"
    /\ UNCHANGED <<status, task_status, last_position, f, streamed, raising,
                   transfer_task, temp_file, source_size, syncVars, loop_time, gatewayVars,
                   waiterVars, readerVars, routerVars, rangeVars, streamVars, commandVars>>

\* "Stream any remaining bytes": `while chunk := f.read(8192): yield chunk`
Flush(outcome) ==
    /\ tpc = "flush"
    /\ IF ~temp_file.exists
       THEN /\ tpc' = "finally"
            /\ UNCHANGED <<f, streamed, raising>>
       ELSE IF outcome # "ok"
       THEN /\ tpc' = "finally"
            /\ raising' = <<outcome>>
            /\ UNCHANGED <<f, streamed>>
       ELSE LET chunk == read(f, temp_file.size)
            IN  /\ f' = f + Len(chunk)
                /\ streamed' = streamed \o chunk
                /\ tpc' = IF chunk # <<>> THEN "flush_yield" ELSE "finally"
                /\ UNCHANGED raising
    /\ UNCHANGED <<status, task_status, last_position, transfer_task, temp_file,
                   source_size, syncVars, loop_time, gatewayVars, waiterVars,
                   readerVars, routerVars, rangeVars, streamVars, commandVars>>

\* The consumer asks for the next chunk of the last bytes.
FlushResume ==
    /\ tpc = "flush_yield"
    /\ tpc' = "flush"
    /\ UNCHANGED <<status, task_status, last_position, f, streamed, raising,
                   transfer_task, temp_file, source_size, syncVars, loop_time, gatewayVars,
                   waiterVars, readerVars, routerVars, rangeVars, streamVars, commandVars>>

\* The consumer goes away: the generator suspended at a yield is closed
\* (GeneratorExit), the one awaiting the sleep is cancelled
\* (CancelledError).  Neither is an Exception; the finally clause runs.
Disconnect ==
    /\ tpc \in {"yield", "flush_yield", "sleep"}
    /\ raising' = IF tpc = "sleep" THEN <<"CancelledError">> ELSE <<"GeneratorExit">>
    /\ tpc' = "finally"
    /\ UNCHANGED <<status, task_status, last_position, f, streamed,
                   transfer_task, temp_file, source_size, syncVars, loop_time, gatewayVars,
                   waiterVars, readerVars, routerVars, rangeVars, streamVars, commandVars>>

\* (mutant) a finally clause that removes nothing
RemoveTempFile_Keep(file, outcome) == file

\* The finally clause: temp_filename is removed if it exists; an OSError of
\* os.remove is logged and dropped.
RemoveTempFile(file, outcome) ==
    IF file.exists /\ outcome = "ok" THEN [exists |-> FALSE, size |-> 0] ELSE file

\* The generator ends: after the finally clause it returns, or the
\* exception goes on to its consumer.
Finally(outcome) ==
    /\ tpc = "finally"
    /\ temp_file' = RemoveTempFile(temp_file, outcome)
    /\ tpc' = IF raising = <<>> THEN "done" ELSE "raised"
    /\ UNCHANGED <<status, task_status, last_position, f, streamed, raising,
                   transfer_task, source_size, syncVars, loop_time, gatewayVars,
                   waiterVars, readerVars, routerVars, rangeVars, streamVars, commandVars>>

\* the steps of the generator and of its consumer
Generator ==
    \/ \E c \in BOOLEAN, o \in ApiOutcomes : SubmitTransfer(c, o)
    \/ \E o \in ApiOutcomes : GetTask(o)
    \/ \E o \in FileOutcomes : ReadNewBytes(o)
    \/ Resume
    \/ CheckStatus
    \/ Wake
    \/ \E o \in FileOutcomes : Flush(o)
    \/ FlushResume
    \/ Disconnect
    \/ \E o \in FileOutcomes : Finally(o)

\* The transfer job creates temp_filename on the destination endpoint.
JobOpen ==
    /\ transfer_task.status = "ACTIVE"
    /\ ~transfer_task.opened
    /\ transfer_task' = [transfer_task EXCEPT !.opened = TRUE]
    /\ temp_file' = [exists |-> TRUE, size |-> 0]
    /\ UNCHANGED <<generatorVars, source_size, syncVars, loop_time, gatewayVars,
                   waiterVars, readerVars, routerVars, rangeVars, streamVars, commandVars>>

\* The transfer job appends the next byte of the source.
JobWrite(writer) ==
    /\ transfer_task.status = "ACTIVE"
    /\ transfer_task.opened
    /\ transfer_task.bytes < source_size
    /\ transfer_task' = [transfer_task EXCEPT !.bytes = @ + 1]
    /\ temp_file' =
           IF temp_file.exists THEN [temp_file EXCEPT !.size = @ + 1]
           ELSE IF writer = "reopens" THEN [exists |-> TRUE, size |-> transfer_task.bytes + 1]
           ELSE temp_file
    /\ UNCHANGED <<generatorVars, source_size, syncVars, loop_time, gatewayVars,
                   waiterVars, readerVars, routerVars, rangeVars, streamVars, commandVars>>

\* The transfer job ends: every byte is written, or it fails.
JobEnd(details) ==
    /\ transfer_task.status = "ACTIVE"
    /\ \/ /\ transfer_task.opened
          /\ transfer_task.bytes = source_size
          /\ transfer_task' = [transfer_task EXCEPT !.status = "SUCCEEDED"]
       \/ transfer_task' = [transfer_task EXCEPT !.status = "FAILED",
                               !.nice_status_details = details]
    /\ UNCHANGED <<generatorVars, temp_file, source_size, syncVars, loop_time,
                   gatewayVars, waiterVars, readerVars, routerVars, rangeVars,
                   streamVars, commandVars>>

Job ==
    \/ JobOpen
    \/ \E w \in WriterOutcomes : JobWrite(w)
    \/ \E d \in StatusDetails : JobEnd(d)

\* --------------------------------------------------- cfdb sync (cli.py)
\* The command `cfdb sync`: _sync_dccs of cli.py, run by a process of its
\* own on the database the service reads (db_name defaults to "cfdb", the
\* default DATABASE_NAME).  It takes no lock.
NoCliCall == cli = [pc |-> "idle", dcc_names |-> <<>>, idx |-> 0, cidx |-> 0]

\* validation and normalization of the DCC_NAMES arguments, up to the await
\* of the first download_file
CliSync(dcc_names) ==
    /\ cli.pc = "idle"
    /\ IF \E i \in 1..Len(dcc_names) :
              normalize_dcc_name(dcc_names[i]) \notin Range(get_all_dcc_names)
       THEN cli' = [cli EXCEPT !.pc = "Abort"]
       ELSE cli' = [pc |-> "download",
                    dcc_names |-> IF dcc_names # <<>>
                                  THEN [i \in 1..Len(dcc_names) |-> normalize_dcc_name(dcc_names[i])]
                                  ELSE get_all_dcc_names,
                    idx |-> 1, cidx |-> 0]
    /\ UNCHANGED <<syncVars, serviceVars, limiterVars, downloadVars>>

\* await download_file(url, zip_path): returns or raises (re-raised)
CliDownload ==
    /\ cli.pc = "download"
    /\ \/ cli' = [cli EXCEPT !.pc = "extract"]
       \/ cli' = [cli EXCEPT !.pc = "raised"]
    /\ UNCHANGED <<syncVars, serviceVars, limiterVars, downloadVars>>

\* the optional backup of the extracted directory, then extract_zip
CliExtract ==
    /\ cli.pc = "extract"
    /\ \/ cli' = [cli EXCEPT !.pc = "clear", !.cidx = 1]
       \/ cli' = [cli EXCEPT !.pc = "raised"]
    /\ UNCHANGED <<syncVars, serviceVars, limiterVars, downloadVars>>

\* clear_dcc_data(db_name, dcc): one delete_many({"submission": dcc}) per
\* collection (a delete that raises is logged and the loop goes on)
CliClear ==
    /\ cli.pc = "clear"
    /\ LET c == Collections[cli.cidx]
           d == cli.dcc_names[cli.idx]
       IN  store' = [store EXCEPT ![c][d] = {}]
    /\ cli' = IF cli.cidx < Len(Collections)
              THEN [cli EXCEPT !.cidx = @ + 1]
              ELSE [cli EXCEPT !.pc = "load", !.cidx = 1]
    /\ UNCHANGED <<utcnow, locks, pc, now, names, tasks, idx, cidx, exc, cutovers, race,
                   serviceVars, limiterVars, downloadVars>>

\* _load_cfdb_dataset(extract_dir, db_name): the records of one table are
\* inserted with the directory name, the provider, as their submission; a
\* failure is re-raised.  After the last table: cleanup_zip, which never
\* raises, and the next provider or the end of the command.
CliLoad ==
    /\ cli.pc = "load"
    /\ LET c == Collections[cli.cidx]
           d == cli.dcc_names[cli.idx]
       IN  \/ /\ store' = [store EXCEPT ![c][d] = @ \cup {"new"}]
              /\ cli' = IF cli.cidx < Len(Collections)
                        THEN [cli EXCEPT !.cidx = @ + 1]
                        ELSE IF cli.idx < Len(cli.dcc_names)
                             THEN [cli EXCEPT !.pc = "download", !.idx = @ + 1, !.cidx = 0]
                             ELSE [cli EXCEPT !.pc = "done", !.cidx = 0]
           \/ /\ cli' = [cli EXCEPT !.pc = "raised"]
              /\ UNCHANGED store
    /\ UNCHANGED <<utcnow, locks, pc, now, names, tasks, idx, cidx, exc, cutovers, race,
                   serviceVars, limiterVars, downloadVars>>

Cli ==
    \/ \E n \in DccInputs : CliSync(n)
    \/ CliDownload
    \/ CliExtract
    \/ CliClear
    \/ CliLoad

\* ------------------------------------------------ TTLSemaphore, rate_limit
Callers == 1..NumCallers

NoTime == 0 - 1

NoCall == [pc |-> "idle", granted_at |-> NoTime, due |-> NoTime, releases |-> 0]

\* no semaphore has been constructed and no caller is in rate_limit
NoLimiterCall ==
    /\ sem = [limit |-> 0, interval |-> 0, value |-> 0]
    /\ sem_time = 0
    /\ calls = [c \in Callers |-> NoCall]

\* TTLSemaphore(limit, interval): BoundedSemaphore.__init__ sets the value
\* and the bound to limit
TTLSemaphore(limit, interval) ==
    [limit |-> limit, interval |-> interval, value |-> limit]

\* (mutant) a release that is scheduled without delay
ReleaseDue_AtOnce(t, interval) == t

\* loop.call_later(self._interval, self.release): when the callback is due
ReleaseDue(t, interval) == t + interval

\* `async with rate_limit():` is entered: the caller awaits acquire()
RateLimit(c) ==
    /\ calls[c].pc = "idle"
    /\ calls' = [calls EXCEPT ![c].pc = "acquire"]
    /\ UNCHANGED <<sem, sem_time, syncVars, serviceVars, cli, downloadVars>>

\* TTLSemaphore.acquire: super().acquire() returns once a permit is free and
\* takes it, release is scheduled, and rate_limit yields to the guarded call
acquire(c) ==
    /\ calls[c].pc = "acquire"
    /\ sem.value > 0
    /\ sem' = [sem EXCEPT !.value = @ - 1]
    /\ calls' = [calls EXCEPT ![c] =
           [pc |-> "inside", granted_at |-> sem_time,
            due |-> ReleaseDue(sem_time, sem.interval), releases |-> 0]]
    /\ UNCHANGED <<sem_time, syncVars, serviceVars, cli, downloadVars>>

\* The guarded call finishes and the rate_limit block is left: the
\* generator of rate_limit has nothing after its yield, and
\* TTLSemaphore.__aexit__ (which is `pass`) is not called by it.
Leave(c) ==
    /\ calls[c].pc = "inside"
    /\ calls' = [calls EXCEPT ![c].pc = "left"]
    /\ UNCHANGED <<sem, sem_time, syncVars, serviceVars, cli, downloadVars>>

\* The event loop runs the callback scheduled by call_later, at its due
\* time or later.  BoundedSemaphore.release raises ValueError when the value
\* is at the bound and increments it otherwise.
release(c) ==
    /\ calls[c].due # NoTime
    /\ calls[c].releases = 0
    /\ sem_time >= calls[c].due
    /\ calls' = [calls EXCEPT ![c].releases = @ + 1]
    /\ sem' = IF sem.value >= sem.limit THEN sem ELSE [sem EXCEPT !.value = @ + 1]
    /\ UNCHANGED <<sem_time, syncVars, serviceVars, cli, downloadVars>>

\* the clock of the event loop that runs the limiter advances
SemTick ==
    /\ sem_time < MaxSemTime
    /\ sem_time' = sem_time + 1
    /\ UNCHANGED <<sem, calls, syncVars, serviceVars, cli, downloadVars>>

Limiter ==
    \/ \E c \in Callers : RateLimit(c)
    \/ \E c \in Callers : acquire(c)
    \/ \E c \in Callers : Leave(c)
    \/ \E c \in Callers : release(c)
    \/ SemTick

\* ---------------------------------------------------------- download_file
\* What one attempt (the try block: session.get, the status check, the
\* write of the file) comes to: it completes, or raises ClientResponseError
\* on a status other than 200, another aiohttp.ClientError, an OSError, or
\* an exception the except clause does not list (the task is cancelled).
AttemptOutcomes == {"ok", "ClientResponseError", "ClientError", "OSError", "CancelledError"}

\* the exceptions `except (aiohttp.ClientError, OSError)` catches
Caught == {"ClientResponseError", "ClientError", "OSError"}

\* no call of download_file is under way
NoDownloadCall ==
    dl = [pc |-> "idle", max_retries |-> 0, attempt |-> 0, wait_time |-> 0,
          failures |-> <<>>, waits |-> <<>>, result |-> "none"]

RECURSIVE Pow2(_)
Pow2(n) == IF n = 0 THEN 1 ELSE 2 * Pow2(n - 1)

\* (mutant) a retry condition that holds after every failed attempt
MayRetry_Always(attempt, max_retries) == TRUE

\* `if attempt < max_retries - 1`
MayRetry(attempt, max_retries) == attempt < max_retries - 1

\* download_file(url, destination, max_retries=m) up to the first attempt;
\* `for attempt in range(max_retries)` has no iteration when m is 0, and
\* the function then returns None
DownloadFile ==
    /\ dl.pc = "call"
    /\ dl' = IF dl.max_retries = 0
             THEN [dl EXCEPT !.pc = "returned", !.result = "None"]
             ELSE [dl EXCEPT !.pc = "attempt", !.attempt = 0]
    /\ UNCHANGED <<syncVars, serviceVars, cli, limiterVars>>

\* one iteration of the loop up to its return, raise or await of sleep
Attempt(outcome) ==
    /\ dl.pc = "attempt"
    /\ dl' = IF outcome = "ok"
             THEN [dl EXCEPT !.pc = "returned", !.result = "destination"]
             ELSE IF outcome \in Caught /\ MayRetry(dl.attempt, dl.max_retries)
             THEN [dl EXCEPT !.pc = "sleep", !.wait_time = Pow2(dl.attempt),
                             !.failures = Append(@, outcome),
                             !.waits = Append(@, Pow2(dl.attempt))]
             ELSE [dl EXCEPT !.pc = "raised", !.result = outcome,
                             !.failures = Append(@, outcome)]
    /\ UNCHANGED <<syncVars, serviceVars, cli, limiterVars>>

\* await asyncio.sleep(wait_time) returns and the loop takes its next
\* iteration, or returns after its last one; or the sleep is cancelled
Sleep(cancelled) ==
    /\ dl.pc = "sleep"
    /\ dl' = IF cancelled
             THEN [dl EXCEPT !.pc = "raised", !.result = "CancelledError"]
             ELSE IF dl.attempt + 1 < dl.max_retries
             THEN [dl EXCEPT !.pc = "attempt", !.attempt = @ + 1]
             ELSE [dl EXCEPT !.pc = "returned", !.result = "None"]
    /\ UNCHANGED <<syncVars, serviceVars, cli, limiterVars>>

Downloader ==
    \/ DownloadFile
    \/ \E o \in AttemptOutcomes : Attempt(o)
    \/ \E cancelled \in BOOLEAN : Sleep(cancelled)

\* no command-line call is under way
NoCommandCall ==
    /\ NoCliCall
    /\ NoLimiterCall
    /\ NoDownloadCall

\* ------------------------------------------------------------ the clocks
\* the wall clock advances
Tick ==
    /\ utcnow < MaxNow
    /\ utcnow' = utcnow + 1
    /\ UNCHANGED <<locks, store, pc, now, names, tasks, idx, cidx, exc, cutovers, race, others>>

\* the monotonic clock of the event loop advances
LoopTick ==
    /\ loop_time < MaxLoopTime
    /\ loop_time' = loop_time + 1
    /\ UNCHANGED <<syncVars, gatewayVars, waiterVars, readerVars, routerVars, rangeVars, streamVars, bridgeVars, commandVars>>

\* ------------------------------------------------------- specifications
\* Init: the service after start-up, with no call under way.
\* no call of parse_range_header is under way
NoRangeCall ==
    /\ range_header = <<>>
    /\ file_size = 0
    /\ parsed = [kind |-> "idle"]

\* no request is past its file lookup
NoStreamCall(doc) ==
    /\ filedoc = doc
    /\ glocals = [g \in Requests |-> NoLocals]

\* no transfer_and_stream generator is running
NoBridgeCall ==
    /\ NoTransferCall
    /\ source_size = 0

Init ==
    /\ InitCoordination
    /\ NoRangeCall
    /\ NoStreamCall([valid |-> TRUE, access_url |-> NoUrl,
                     data_access_level |-> "None", persistent_id |-> "None",
                     status |-> "None"])
    /\ NoBridgeCall
    /\ NoCommandCall

\* start_sync calls of any number of processes, is_sync_running calls, time
Next ==
    \/ Sync
    \/ \E r \in Readers : IsSyncRunningRead(r)
    \/ \E r \in Readers : IsSyncRunningReturn(r)
    \/ Tick

Spec == Init /\ [][Next]_vars

\* Refreshes whose awaits end: every step of an accepted task's pipeline
\* (a download, a store operation, the materializer) returns or raises, so
\* the event loop goes on running the task until _run_sync has ended.
NextRefresh ==
    \/ Sync
    \/ Tick

SpecRefreshFair ==
    /\ Init
    /\ [][NextRefresh]_vars
    /\ \A t \in TaskIds : WF_vars(Pipeline(t))

\* refreshes and gateway requests
NextGateway ==
    \/ Sync
    \/ \E g \in Requests : Gateway(g)
    \/ LoopTick

SpecGateway == Init /\ [][NextGateway]_vars

\* refreshes and callers of wait_for_cutover
NextWaiter ==
    \/ Sync
    \/ \E w \in Waiters : Waiter(w)
    \/ LoopTick

SpecWaiter == Init /\ [][NextWaiter]_vars

\* Callers of wait_for_cutover whose store reads and sleeps return, under a
\* clock that advances; nothing is assumed of the refreshes.
SpecWaiterFair ==
    /\ SpecWaiter
    /\ WF_vars(LoopTick)
    /\ \A w \in Waiters : WF_vars(WaitFindOne(w) \/ WaitCheck(w) \/ WaitWake(w))

\* Refreshes started by direct callers of start_sync, and POST /sync
\* requests.  The handler reads no clock (the body of is_sync_running never
\* runs for it), so the requests are taken at one reading of the clock.
NextTrigger ==
    \/ Sync
    \/ \E q \in Triggers, k \in ApiKeyInputs, n \in DccInputs : SyncTrigger(q, k, n)

SpecTrigger == Init /\ [][NextTrigger]_vars

\* calls of parse_range_header
InitRange ==
    /\ InitCoordination
    /\ \E call \in RangeCalls : range_header = call[1] /\ file_size = call[2]
    /\ parsed = [kind |-> "none"]
    /\ NoStreamCall([valid |-> TRUE, access_url |-> NoUrl,
                     data_access_level |-> "None", persistent_id |-> "None",
                     status |-> "None"])
    /\ NoBridgeCall
    /\ NoCommandCall

NextRange == ParseRangeHeader

SpecRange == InitRange /\ [][NextRange]_vars

\* gateway requests, step by step, on a store that no refresh is replacing
InitStream ==
    /\ InitCoordination
    /\ NoRangeCall
    /\ \E doc \in FileDocs : NoStreamCall(doc)
    /\ NoBridgeCall
    /\ NoCommandCall

NextStream == \E g \in Requests : Stream(g)

SpecStream == InitStream /\ [][NextStream]_vars

\* one transfer_and_stream generator, its consumer and its transfer job
InitBridge ==
    /\ InitCoordination
    /\ NoRangeCall
    /\ NoStreamCall([valid |-> TRUE, access_url |-> NoUrl,
                     data_access_level |-> "None", persistent_id |-> "None",
                     status |-> "None"])
    /\ NoTransferCall
    /\ source_size \in 0..MaxSourceSize
    /\ NoCommandCall

NextBridge == Generator \/ Job

SpecBridge == InitBridge /\ [][NextBridge]_vars

\* refreshes started through the service, and the `cfdb sync` command
NextCli ==
    \/ Sync
    \/ Cli

SpecCli == Init /\ [][NextCli]_vars

\* callers of rate_limit on one TTLSemaphore
InitLimiter ==
    /\ InitCoordination
    /\ NoRangeCall
    /\ NoStreamCall([valid |-> TRUE, access_url |-> NoUrl,
                     data_access_level |-> "None", persistent_id |-> "None",
                     status |-> "None"])
    /\ NoBridgeCall
    /\ NoCliCall
    /\ NoDownloadCall
    /\ \E limit \in 1..MaxLimit, interval \in 1..MaxInterval :
           sem = TTLSemaphore(limit, interval)
    /\ sem_time = 0
    /\ calls = [c \in Callers |-> NoCall]

NextLimiter == Limiter

SpecLimiter == InitLimiter /\ [][NextLimiter]_vars

\* calls of download_file
InitDownload ==
    /\ InitCoordination
    /\ NoRangeCall
    /\ NoStreamCall([valid |-> TRUE, access_url |-> NoUrl,
                     data_access_level |-> "None", persistent_id |-> "None",
                     status |-> "None"])
    /\ NoBridgeCall
    /\ NoCliCall
    /\ NoLimiterCall
    /\ \E m \in 0..MaxRetries :
           dl = [pc |-> "call", max_retries |-> m, attempt |-> 0, wait_time |-> 0,
                 failures |-> <<>>, waits |-> <<>>, result |-> "none"]

NextDownload == Downloader

SpecDownload == InitDownload /\ [][NextDownload]_vars

\* The consumer that keeps asking for the next chunk: the event loop runs
\* the generator whenever it can take a step.
SpecBridgeFair == SpecBridge /\ WF_vars(Generator)

\* ================================================================ claims
\* The task is executing its pipeline: it acquired the sync lock and its
\* release_sync_lock in _run_sync has not run yet.
InPipeline(t) ==
    pc[t] \in {"run", "download", "extract", "acquire_cutover", "clear", "load",
               "release_cutover", "cleanup", "materialize", "release"}

\* what the try_acquire_sync_lock call of start_sync(t) came to
Outcome(t) ==
    IF InPipeline(t) \/ pc[t] = "done" THEN "True"
    ELSE IF pc[t] = "RuntimeError" THEN "False"
    ELSE IF pc[t] = "DuplicateKeyError" THEN "raised"
    ELSE "pending"

SyncDoc == locks[SYNC_LOCK_ID]

\* the step is the find_one_and_update of t's try_acquire_sync_lock
AcquireStep(t) == pc[t] = "acquire" /\ pc'[t] # "acquire"

C2_ExactlyOneTrueOtherFalse ==
    \A p \in race :
        Outcome(p[2]) # "pending"
            => Outcome(p[1]) = "True" /\ Outcome(p[2]) = "False"

\* C3 as stated: try_acquire_sync_lock on a lock that is active, not stale
\* and held by another task returns False and leaves the document as it is.
C3_HeldLockReturnsFalse ==
    [][\A t \in TaskIds :
          (/\ AcquireStep(t)
           /\ SYNC_LOCK_ID \in DOMAIN locks
           /\ SyncDoc.active
           /\ SyncDoc.task_id # t
           /\ now[t] - SyncDoc.started_at <= STALE_LOCK_THRESHOLD)
              => pc'[t] = "RuntimeError" /\ locks' = locks]_vars

\* C4: try_acquire_sync_lock by a new task id on a lock that is active,
\* was never released and is stamped more than the threshold ago returns
\* True, and the document becomes active with the new task_id and
\* started_at = now.
C4_StaleLockIsTakenOver ==
    [][\A t \in TaskIds :
          (/\ AcquireStep(t)
           /\ SYNC_LOCK_ID \in DOMAIN locks
           /\ SyncDoc.active
           /\ SyncDoc.task_id # t
           /\ now[t] - SyncDoc.started_at > STALE_LOCK_THRESHOLD)
              => /\ pc'[t] = "run"
                 /\ locks'[SYNC_LOCK_ID].active
                 /\ locks'[SYNC_LOCK_ID].task_id = t
                 /\ locks'[SYNC_LOCK_ID].started_at = now[t]
                 /\ locks'[SYNC_LOCK_ID].started_at <= utcnow]_vars

\* a task took the lock over from a task that still executes
C4_Witness ==
    \E a, b \in TaskIds :
        /\ a # b /\ InPipeline(a) /\ InPipeline(b)
        /\ SyncDoc.active /\ SyncDoc.task_id = b
        /\ SyncDoc.started_at - now[a] > STALE_LOCK_THRESHOLD

\* C5: release_sync_lock(t) sets active=false and completed_at exactly when
\* the document's task_id is t; otherwise (another holder, or no document)
\* it returns normally and the collection is unchanged.
C5_ReleaseOnlyOwnLock ==
    [][\A t \in TaskIds :
          (pc[t] = "release" /\ pc'[t] # "release")
              => /\ pc'[t] = "done"
                 /\ IF SYNC_LOCK_ID \in DOMAIN locks /\ SyncDoc.task_id = t
                    THEN /\ DOMAIN locks' = DOMAIN locks
                         /\ ~locks'[SYNC_LOCK_ID].active
                         /\ locks'[SYNC_LOCK_ID].completed_at = utcnow
                         /\ \A field \in DOMAIN SyncDoc \ {"active", "completed_at"} :
                                locks'[SYNC_LOCK_ID][field] = SyncDoc[field]
                         /\ \A id \in DOMAIN locks \ {SYNC_LOCK_ID} :
                                locks'[id] = locks[id]
                    ELSE locks' = locks]_vars

\* a task has ended and released nothing: the lock it once held is active
\* for another task and was never marked completed
C5_Witness ==
    \E t \in TaskIds :
        /\ pc[t] = "done"
        /\ SyncDoc.active /\ SyncDoc.task_id # t
        /\ "completed_at" \notin DOMAIN SyncDoc

\* C6: is_sync_running() returns True if and only if the document it read
\* exists, is active and is stamped no more than the threshold ago.
C6_RunningIffActiveAndFresh ==
    [][\A r \in Readers :
          (rpc[r] = "read" /\ rpc'[r] # "read")
              => /\ rpc'[r] \in {"True", "False"}
                 /\ rpc'[r] = "True" <=>
                       \E doc \in rlock[r] :
                           /\ doc.active
                           /\ utcnow - doc.started_at <= STALE_LOCK_THRESHOLD]_vars

\* is_sync_running answered False on an active lock because it is stale
C6_Witness ==
    \E r \in Readers :
        /\ rpc[r] = "False"
        /\ \E doc \in rlock[r] : doc.active

\* request g has its response
Responded(g) == gpc[g] \notin {"idle", "lookup_dcc", "lookup_file", "respond"}

\* The cutover lock was active for g's provider when g was issued and has
\* been active for it ever since (no acquire has run since: the lock was
\* not released and taken again).
UnderCutoverSinceIssue(g) ==
    /\ gissue[g].active
    /\ gissue[g].cutovers = cutovers
    /\ CutoverActive(locks)
    /\ locks[CUTOVER_LOCK_ID].dcc = gdcc[g]

\* The records of provider d are partially replaced: a task has begun to
\* delete them and has not finished loading the new ones.
SwapInProgress(d) ==
    \E t \in DOMAIN tasks :
        /\ tasks[t].current_dcc = d
        /\ (pc[t] = "clear" /\ cidx[t] > 1) \/ pc[t] = "load"

\* the step is a read of provider records by request g
GatewayReadStep(g) ==
    gpc[g] \in {"lookup_dcc", "lookup_file"} /\ gpc'[g] # gpc[g]

\* C7 as stated: a request issued while its provider's cutover lock is
\* active neither looks up the file record nor answers before the lock is
\* released or the wait bound has expired.
C7_RequestWaitsForCutover ==
    [][\A g \in Requests :
          (/\ UnderCutoverSinceIssue(g)
           /\ loop_time - gissue[g].at <= CUTOVER_WAIT_TIMEOUT
           /\ gpc'[g] # gpc[g])
              => gpc[g] # "lookup_file" /\ ~Responded(g)']_vars

\* C8 as stated: no gateway read of a provider's records executes while
\* those records are partially replaced.
C8_NoReadDuringSwap ==
    [][\A g \in Requests :
          GatewayReadStep(g) => ~SwapInProgress(gdcc[g])]_vars

\* C9 as stated: a request whose provider's cutover lock stays active for
\* longer than the wait bound is answered with service-unavailable (503).
C9_TimeoutIsServiceUnavailable ==
    [][\A g \in Requests :
          (/\ ~Responded(g) /\ Responded(g)'
           /\ UnderCutoverSinceIssue(g)
           /\ loop_time - gissue[g].at > CUTOVER_WAIT_TIMEOUT)
              => gpc'[g] = "503"]_vars

\* C10 as stated: a caller of wait_for_cutover that is about to read
\* provider Q is never held up (put to sleep or timed out) by a cutover lock
\* that is active for another provider.
C10_WaiterBlockedOnlyByOwnProvider ==
    \A w \in Waiters :
        wpc[w] \in {"sleep", "TimeoutError"}
            => \A doc \in wlock[w] : doc.dcc = wdcc[w]

\* the step is the exit of task t from `async with locks.CutoverLock(dcc)`
CutoverExitStep(t) == pc[t] = "release_cutover" /\ pc'[t] # "release_cutover"

\* C11: whenever the swap section of a provider (clear and load inside
\* CutoverLock) is exited, normally or because clear or load raised, the
\* cutover lock document has active = false afterwards.
C11_CutoverLockNeverLeaks ==
    [][\A t \in TaskIds :
          CutoverExitStep(t)
              => /\ CUTOVER_LOCK_ID \in DOMAIN locks'
                 /\ ~locks'[CUTOVER_LOCK_ID].active
                 /\ (exc[t] => pc'[t] = "release" /\ tasks'[t].status = "failed")
                 /\ (~exc[t] => pc'[t] = "cleanup")]_vars

\* a swap section was left by an exception of load after the provider's
\* records were deleted, and the cutover lock is not active
C11_Witness ==
    \E t \in TaskIds :
        /\ pc[t] = "release" /\ tasks[t].status = "failed"
        /\ \E d \in DCC_CONFIG : store["file"][d] = {}
        /\ CUTOVER_LOCK_ID \in DOMAIN locks /\ ~locks[CUTOVER_LOCK_ID].active

\* the step is one of task t's replacement of a provider's records (a delete
\* of clear, an insert of load) or its regeneration of the derived view
SwapOrViewStep(t) ==
    /\ pc[t] \in {"clear", "load", "materialize"}
    /\ <<pc[t], cidx[t]>>' # <<pc[t], cidx[t]>>

\* C12 as stated: for each provider of a sync, clear, load and
\* _materialize_files all run while the cutover lock is active for that
\* provider; the lock is released only after the view is regenerated.
C12_SwapAndViewUnderCutover ==
    [][\A t \in TaskIds :
          SwapOrViewStep(t)
              => /\ CutoverActive(locks)
                 /\ locks[CUTOVER_LOCK_ID].dcc = tasks[t].current_dcc]_vars

\* trigger q has its response
Answered(q) == hpc[q] \notin {"idle", "start_sync"}

\* every name of the list is in the registry after normalization
KnownProviders(dccs) ==
    \A i \in 1..Len(dccs) : normalize_dcc_name(dccs[i]) \in DCC_CONFIG

\* the normalized provider list of a trigger ([] = all known)
NormalizedList(dccs) ==
    IF dccs = <<>> THEN get_all_dcc_names
    ELSE [i \in 1..Len(dccs) |-> normalize_dcc_name(dccs[i])]

\* C13 as stated: an authorized trigger that names only known providers and
\* is issued when no sync is running is answered 202, and then the sync lock
\* is or has been taken by a task with the trigger's normalized list.
C13_IdleTriggerIsAccepted ==
    \A q \in Triggers :
        (Answered(q) /\ hpc[q] # "401" /\ KnownProviders(hdccs[q]) /\ ~hrunning[q])
            => /\ hpc[q] = "202"
               /\ \E t \in DOMAIN tasks : tasks[t].dcc_names = NormalizedList(hdccs[q])

\* the step is the handling of trigger q
TriggerStep(q) == hpc[q] = "idle" /\ hpc'[q] \notin {"idle", "401"}

\* C14: a trigger issued while another sync holds the active, non-stale
\* sync lock is answered 409, starts no background task and leaves the
\* lock document unchanged.
C14_BusyTriggerIsConflict ==
    [][\A q \in Triggers :
          (/\ TriggerStep(q)
           /\ SYNC_LOCK_ID \in DOMAIN locks
           /\ SyncDoc.active
           /\ utcnow - SyncDoc.started_at <= STALE_LOCK_THRESHOLD)
              => /\ hpc'[q] = "409"
                 /\ tasks' = tasks /\ pc' = pc
                 /\ locks' = locks]_vars

\* a trigger was answered 409 while a task executed under its fresh lock
C14_Witness ==
    \E q \in Triggers, t \in TaskIds :
        /\ hpc[q] = "409" /\ hrunning[q]
        /\ InPipeline(t) /\ SyncDoc.active /\ SyncDoc.task_id = t

\* C15 as stated: an authorized trigger that names a provider which is not
\* in the registry is answered 400 (and no lock is taken, no task started).
C15_UnknownProviderIsBadRequest ==
    \A q \in Triggers :
        (Answered(q) /\ hpc[q] # "401" /\ ~KnownProviders(hdccs[q]))
            => hpc[q] = "400"

\* a call of parse_range_header has returned or raised
RangeCallDone == parsed.kind \notin {"none", "idle"}

\* The grammar of a single range: "bytes=" first-bound "-" second-bound,
\* where a bound is a run of decimal digits or is absent.
RangeBody(header) == SubSeq(header, 7, Len(header))

HasDash(header) == StartsWith(header, BYTES_PREFIX) /\ Contains(RangeBody(header), "-")

FirstBound(header) ==
    SubSeq(RangeBody(header), 1, IndexOf(RangeBody(header), "-") - 1)

SecondBound(header) ==
    SubSeq(RangeBody(header), IndexOf(RangeBody(header), "-") + 1, Len(RangeBody(header)))

AllDigits(s) == s # <<>> /\ \A i \in 1..Len(s) : s[i] \in Digits

Interval(start, end) ==
    [kind |-> "ok", start |-> start, end |-> end, content_length |-> end - start + 1]

\* C16: for every total_size >= 1, 'start-end' with start <= end and
\* start < total_size gives (start, min(end, total_size-1)) and its length;
\* 'start-' with start < total_size gives (start, total_size-1); '-N' with
\* N >= 1 gives (max(0, total_size-N), total_size-1), of length
\* min(N, total_size).  This covers ("bytes=0-99",1000) = (0,99,100),
\* ("bytes=900-",1000) = (900,999,100), ("bytes=-10",1000) = (990,999,10).
C16_SatisfiableRangeIsResolved ==
    (RangeCallDone /\ file_size >= 1 /\ HasDash(range_header))
        => LET a == FirstBound(range_header)
               b == SecondBound(range_header)
               start == DecimalValue(a)
               end == DecimalValue(b)
           IN  /\ (AllDigits(a) /\ AllDigits(b) /\ start <= end /\ start < file_size)
                      => parsed = Interval(start, Min(end, file_size - 1))
               /\ (AllDigits(a) /\ b = <<>> /\ start < file_size)
                      => /\ parsed = Interval(start, file_size - 1)
                         /\ parsed.content_length = file_size - start
               /\ (a = <<>> /\ AllDigits(b) /\ end >= 1)
                      => /\ parsed = Interval(Max(0, file_size - end), file_size - 1)
                         /\ parsed.content_length = Min(end, file_size)

\* an explicit range whose end overshoots the file was resolved
C16_Witness ==
    /\ RangeCallDone /\ parsed.kind = "ok" /\ file_size >= 1
    /\ HasDash(range_header)
    /\ AllDigits(FirstBound(range_header)) /\ AllDigits(SecondBound(range_header))
    /\ DecimalValue(SecondBound(range_header)) > file_size - 1
    /\ parsed.end = file_size - 1

\* C17 as stated: a well-formed single range whose start is at or beyond
\* total_size, in the form 'start-end' (start <= end) and in the form
\* 'start-' alike, yields RangeNotSatisfiableError carrying total_size.
C17_StartBeyondSizeIsNotSatisfiable ==
    (RangeCallDone /\ HasDash(range_header))
        => LET a == FirstBound(range_header)
               b == SecondBound(range_header)
               start == DecimalValue(a)
               end == DecimalValue(b)
           IN  /\ (AllDigits(a) /\ AllDigits(b) /\ start <= end /\ start >= file_size)
                      => parsed = RangeNotSatisfiableError(file_size)
               /\ (AllDigits(a) /\ b = <<>> /\ start >= file_size)
                      => parsed = RangeNotSatisfiableError(file_size)

\* a bound written as an integer: an optional sign and decimal digits
IntegerLiteral(s) ==
    IF s # <<>> /\ Head(s) \in {"-", "+"} THEN AllDigits(Tail(s)) ELSE AllDigits(s)

LiteralValue(s) ==
    IF Head(s) = "-" THEN 0 - DecimalValue(Tail(s))
    ELSE IF Head(s) = "+" THEN DecimalValue(Tail(s))
    ELSE DecimalValue(s)

\* The inputs C18 lists: no "bytes=" prefix, a multi-range request, a bound
\* that is not an integer, a negative bound, a suffix length that is not
\* positive, the empty "-", an explicit range with start > end.
MalformedRange(header) ==
    \/ ~StartsWith(header, BYTES_PREFIX)
    \/ Contains(header, ",")
    \/ /\ HasDash(header)
       /\ LET a == Strip(FirstBound(header))
              b == Strip(SecondBound(header))
          IN  \/ a # <<>> /\ ~IntegerLiteral(a)
              \/ b # <<>> /\ ~IntegerLiteral(b)
              \/ IntegerLiteral(b) /\ LiteralValue(b) < 0
              \/ a = <<>> /\ IntegerLiteral(b) /\ LiteralValue(b) <= 0
              \/ a = <<>> /\ b = <<>>
              \/ /\ IntegerLiteral(a) /\ IntegerLiteral(b)
                 /\ LiteralValue(a) > LiteralValue(b)

\* C18 as stated: on each of these inputs parse_range_header raises
\* ValueError and never returns a byte interval.
C18_MalformedRangeIsValueError ==
    (RangeCallDone /\ MalformedRange(range_header)) => parsed = ValueError

\* the status that C19 assigns to each way the reference resolver fails
ResolverFailureStatus(kind) ==
    CASE kind = "404" -> "404"
      [] kind \in {"401", "403"} -> "401"
      [] kind = "TimeoutError" -> "504"
      [] kind = "malformed reference" -> "400"
      [] OTHER -> "502"

\* C19 as stated: a failure of the reference resolver is answered by its
\* kind: object not found upstream 404, authentication required or forbidden
\* upstream 401, timeout 504, any other resolver failure 502, a malformed
\* reference 400.
C19_ResolverFailureByKind ==
    \A g \in Requests :
        glocals[g].resolver \notin {"unset", "object"}
            => gpc[g] = ResolverFailureStatus(glocals[g].resolver)

\* C20 as stated: a request to the provider with tiered access for a file
\* whose access level, cached or freshly fetched, is consortium or protected
\* is answered 403 whether or not it carries a bearer credential, and never
\* reaches the backend that streams bytes or starts a transfer.
C20_RestrictedFileIsBlocked ==
    \A g \in Requests :
        (/\ gdcc[g] = DCC_HUBMAP
         /\ glocals[g].data_access_level \in {"consortium", "protected"}
         /\ gpc[g] # "cache_level")
            => gpc[g] = "403"

\* the step is the call of fetch_access_metadata of request g
PolicyQueryStep(g) == glocals'[g].queries > glocals[g].queries

\* C21: the access-policy service is asked only by a request that read a
\* file record without cached level, and at most once by a request; when
\* it returns a level and the store applies the write, the record holds
\* that level from then on, so that a later request reads it from the
\* record and asks nothing.
C21_LevelFetchedOnceAndCached ==
    [][\A g \in Requests :
          /\ PolicyQueryStep(g)
                 => /\ glocals[g].queries = 0
                    /\ glocals[g].file_doc.data_access_level = "None"
          /\ (gpc[g] = "cache_level" /\ gpc'[g] \notin {"cache_level", "500"})
                 => /\ glocals[g].search = "200"
                    /\ filedoc'.data_access_level = glocals[g].data_access_level
          /\ filedoc.data_access_level # "None"
                 => filedoc'.data_access_level # "None"
       ]_vars

\* a request answered without a query, from the level an earlier request
\* wrote onto the record
C21_Witness ==
    \E g \in Requests :
        /\ gdcc[g] = DCC_HUBMAP
        /\ gpc[g] \in ResponseStatuses
        /\ glocals[g].strategy # "unset"
        /\ glocals[g].file_doc.status = "Published"
        /\ glocals[g].file_doc.data_access_level = "consortium"
        /\ glocals[g].data_access_level = "consortium"
        /\ glocals[g].queries = 0

\* C22 as stated: when the store fails to write the fetched level back, the
\* request goes on as it does when the write succeeds: the level is
\* enforced and the request reaches the backend or is refused by the policy.
C22_CacheFailureDoesNotAbort ==
    [][\A g \in Requests :
          (gpc[g] = "cache_level" /\ gpc'[g] # "cache_level")
              => gpc'[g] = AccessDecision(glocals[g].data_access_level,
                                          glocals[g].auth_token)
       ]_vars

\* C23: a request to the provider with tiered access whose level is still
\* unknown once the record is read and the fetch, if any, is over (no
\* persistent id, no UUID in it, and every way the Search API gives no
\* level) goes on to the choice of the backend: it is neither refused by
\* the policy step nor failed by the Search API.
C23_UnknownLevelProceeds ==
    [][\A g \in Requests :
          (/\ gdcc[g] = DCC_HUBMAP
           /\ gpc[g] \in {"fetch_drs", "fetch_access"}
           /\ gpc'[g] # gpc[g]
           /\ glocals'[g].resolver = "object"
           /\ glocals'[g].data_access_level = "None")
              => IF gpc[g] = "fetch_drs" /\ UncachedLevel(glocals[g].file_doc)
                 THEN gpc'[g] = "fetch_access"
                 ELSE gpc'[g] = "backend"
       ]_vars

\* a request that reached the backend after the Search API timed out
C23_Witness ==
    \E g \in Requests :
        /\ gdcc[g] = DCC_HUBMAP
        /\ glocals[g].search = "TimeoutError"
        /\ glocals[g].data_access_level = "None"
        /\ glocals[g].strategy # "unset"

\* the types of the access methods of the DRS object of request g
MethodTypes(g) ==
    { glocals[g].drs_methods[i].type : i \in 1..Len(glocals[g].drs_methods) }

\* request g went through step 7 of stream_file
BackendChosen(g) == glocals[g].strategy # "unset"

\* C24: the backend is chosen by the access methods of the DRS object: with
\* a direct method (https or s3) the direct branch is taken, also when a
\* Globus method is there, and no transfer is started; with Globus alone
\* the transfer branch is taken and no URL is fetched; with neither the
\* answer is 501.
C24_BackendByAccessMethods ==
    \A g \in Requests :
        BackendChosen(g) =>
            /\ MethodTypes(g) \cap {"https", "s3"} # {}
                   => /\ glocals[g].strategy = "https"
                      /\ glocals[g].body # "transfer_and_stream"
            /\ (MethodTypes(g) \cap {"https", "s3"} = {} /\ "globus" \in MethodTypes(g))
                   => /\ glocals[g].strategy = "globus"
                      /\ glocals[g].body # "stream_from_url"
            /\ MethodTypes(g) \cap {"https", "s3", "globus"} = {}
                   => /\ glocals[g].strategy = "none"
                      /\ gpc[g] = "501"

\* an object with a Globus method listed before a direct one went to the
\* direct branch
C24_Witness ==
    \E g \in Requests :
        /\ BackendChosen(g)
        /\ {"https", "globus"} \subseteq MethodTypes(g)
        /\ glocals[g].drs_methods[1].type = "globus"
        /\ glocals[g].strategy = "https"

\* request g went to the direct branch for an object of known size with a
\* download URL
DirectWithSize(g) ==
    /\ BackendChosen(g)
    /\ glocals[g].strategy = "https"
    /\ get_https_download_url(glocals[g].drs_methods).ok
    /\ glocals[g].drs_size > 0

\* C25 as stated: direct streaming of an object of known size S answers a
\* request without Range with 200, Content-Length S and the bytes of the
\* upstream GET, and a request with a satisfiable Range with 206,
\* Content-Range `bytes start-end/S`, Content-Length the length of the
\* interval, the Range being forwarded to the upstream GET.
C25_DirectStreamingHeaders ==
    \A g \in Requests :
        DirectWithSize(g) =>
            LET S == glocals[g].drs_size
                r == parse_range_header(glocals[g].range, S)
            IN  /\ glocals[g].range = <<>>
                       => /\ gpc[g] = "200"
                          /\ glocals[g].headers.content_length = S
                          /\ glocals[g].body = "stream_from_url"
                /\ (glocals[g].range # <<>> /\ r.kind = "ok")
                       => /\ gpc[g] = "206"
                          /\ glocals[g].headers.content_range = <<r.start, r.end, S>>
                          /\ glocals[g].headers.content_length = r.content_length
                          /\ glocals[g].body = "stream_from_url"
                          /\ glocals[g].upstream_range = glocals[g].range

\* C26 as stated: the failures of a Range request are answered each by its
\* own status and start no upstream fetch and no transfer: Range on a
\* direct object of unknown size 500, an unsatisfiable Range 416 with
\* Content-Range `bytes */size`, a malformed Range 400, Range on an object
\* that only Globus serves 501.
C26_RangeFailuresAreDistinct ==
    \A g \in Requests :
        (BackendChosen(g) /\ glocals[g].range # <<>>) =>
            LET S == glocals[g].drs_size
                direct == /\ glocals[g].strategy = "https"
                          /\ get_https_download_url(glocals[g].drs_methods).ok
                r == parse_range_header(glocals[g].range, S)
            IN  /\ (direct /\ S = NoSize)
                       => gpc[g] = "500" /\ glocals[g].body = "none"
                /\ (direct /\ S > 0 /\ r.kind = "RangeNotSatisfiableError")
                       => /\ gpc[g] = "416"
                          /\ glocals[g].headers.content_range = <<S>>
                          /\ glocals[g].body = "none"
                /\ (direct /\ S > 0 /\ r.kind = "ValueError")
                       => gpc[g] = "400" /\ glocals[g].body = "none"
                /\ glocals[g].strategy = "globus"
                       => gpc[g] = "501" /\ glocals[g].body = "none"

\* the generator has finished: it returned, or an exception left it
Finished == tpc \in {"done", "raised"}

\* C27 as stated: once the generator has finished, on any exit path after
\* the transfer was submitted, the staging file is absent, and it stays
\* absent, also when the transfer job is still writing.
C27_StagingFileAbsentAfterExit ==
    (Finished /\ transfer_task.status # "None") => ~temp_file.exists

\* bytes 1 to n of the source, in order
Bytes(n) == [i \in 1..n |-> i]

\* C28: with a staging file that the job only appends to, last_position
\* never decreases and never exceeds the size of the file, the bytes
\* yielded are the bytes of the file in order, none twice and none skipped,
\* and a generator that returns has yielded the whole file.
C28_StreamedBytesAreTheFile ==
    /\ [](/\ streamed = Bytes(Len(streamed))
          /\ ~Finished => last_position <= temp_file.size
          /\ tpc = "done" => streamed = Bytes(source_size))
    /\ [][last_position' >= last_position]_vars

\* a second chunk is yielded while the job is still writing
C28_Witness ==
    /\ transfer_task.status = "ACTIVE"
    /\ transfer_task.bytes < source_size
    /\ tpc = "yield"
    /\ last_position > 0
    /\ Len(streamed) > last_position

\* C29: the poll loop ends in the iteration that read SUCCEEDED or FAILED;
\* after SUCCEEDED the rest of the file is yielded and the generator
\* returns; after FAILED it raises an error with the diagnostic of the job
\* and yields nothing once the error is raised; and once the job has
\* reached a terminal status the generator finishes.
C29_PollLoopTerminates ==
    /\ [][/\ (tpc = "check" /\ status \in {"SUCCEEDED", "FAILED"})
                 => tpc' \in {"flush", "finally"}
          /\ (tpc = "check" /\ status = "FAILED")
                 => /\ tpc' = "finally"
                    /\ raising' = <<"Globus transfer failed:",
                                    IF transfer_task.nice_status_details = "absent"
                                    THEN "Unknown error"
                                    ELSE transfer_task.nice_status_details>>
          /\ raising # <<>> => streamed' = streamed
         ]_vars
    /\ [](tpc = "done" => status = "SUCCEEDED" /\ streamed = Bytes(source_size))
    /\ (transfer_task.status \in {"SUCCEEDED", "FAILED"}) ~> Finished

\* a stream that yielded bytes and then ended with the error of the job
C29_Witness ==
    /\ tpc = "raised"
    /\ status = "FAILED"
    /\ raising = <<"Globus transfer failed:", "permission denied">>
    /\ streamed # <<>>

\* call w of wait_for_cutover is under way
Waiting(w) == wpc[w] \in {"find_one", "check", "sleep"}

\* C30: wait_for_cutover returns at the read that finds the cutover lock
\* absent or inactive, the first read included; at a read that finds it
\* active it raises TimeoutError if more than the timeout has elapsed since
\* it started and sleeps otherwise; and every call ends, by a return or by
\* TimeoutError, as long as its store reads return.
C30_WaitForCutoverTerminates ==
    /\ [][\A w \in Waiters :
              (wpc[w] = "check" /\ wpc'[w] # "check")
                  => IF wlock[w] = {} \/ \A d \in wlock[w] : ~d.active
                     THEN wpc'[w] = "returned"
                     ELSE IF loop_time - wstart[w] > CUTOVER_WAIT_TIMEOUT
                     THEN wpc'[w] = "TimeoutError"
                     ELSE wpc'[w] = "sleep"
         ]_vars
    /\ \A w \in Waiters : Waiting(w) ~> wpc[w] \in {"returned", "TimeoutError"}

\* a call that found the lock active until the timeout had elapsed
C30_Witness ==
    \E w \in Waiters :
        /\ wpc[w] = "TimeoutError"
        /\ loop_time - wstart[w] > CUTOVER_WAIT_TIMEOUT
        /\ CutoverActive(locks)

\* task t is inside its swap section: acquire_cutover_lock has run for it
\* and its release_cutover_lock has not
InSwapSection(t) == pc[t] \in {"clear", "load", "release_cutover"}

\* C33 as stated: at most one sync task is inside its swap section at any
\* instant, and whenever a task is inside, the cutover lock document is
\* active.
C33_OneCutoverAtATime ==
    /\ Cardinality({t \in TaskIds : InSwapSection(t)}) <= 1
    /\ (\E t \in TaskIds : InSwapSection(t)) => CutoverActive(locks)

\* C38 as stated: of two authorized triggers for known providers that race
\* on an idle system (no lock document, no other caller of start_sync),
\* once both are answered exactly one has 202 and the other 409, and
\* exactly one background pipeline has been started.
C38_RacingTriggersOneAccepted ==
    \A q1, q2 \in Triggers :
        (/\ q1 # q2
         /\ \A q \in {q1, q2} :
                Answered(q) /\ hpc[q] # "401" /\ KnownProviders(hdccs[q]) /\ ~hrunning[q]
         /\ \A t \in TaskIds : pc[t] = "idle")
            => /\ {hpc[q1], hpc[q2]} = {"202", "409"}
               /\ Cardinality(DOMAIN tasks) = 1

\* a task record in a terminal state: completed or failed, failed exactly
\* with an error message, completed_at set, current_dcc and current_step
\* cleared
Terminal(rec) ==
    /\ rec.status \in {"completed", "failed"}
    /\ rec.status = "failed" <=> rec.error # "None"
    /\ rec.completed_at = "set"
    /\ rec.current_dcc = <<>>
    /\ rec.current_step = "None"

\* C36: a SyncTask is created with status running; its status changes at
\* most once, to completed (only when the last provider's last step has
\* returned) or to failed (with the error set), and the record never
\* changes afterwards; a terminal record has completed_at set and
\* current_dcc and current_step cleared; a task whose _run_sync has ended
\* is terminal.
C36_TaskLifecycle ==
    [][\A t \in TaskIds :
          /\ (t \notin DOMAIN tasks /\ t \in DOMAIN tasks')
                => /\ tasks'[t].status = "running"
                   /\ tasks'[t].error = "None"
                   /\ tasks'[t].completed_at = "None"
          /\ t \in DOMAIN tasks
                => /\ t \in DOMAIN tasks'
                   /\ IF tasks[t].status = "running"
                      THEN \/ tasks'[t].status = "running"
                           \/ /\ Terminal(tasks'[t])
                              /\ tasks'[t].status = "completed"
                                    => /\ pc[t] = "materialize"
                                       /\ idx[t] = Len(tasks[t].dcc_names)
                      ELSE tasks'[t] = tasks[t]
          /\ pc'[t] = "done" => Terminal(tasks'[t])]_vars

\* one task has ended completed and another has ended failed
C36_Witness ==
    \E a, b \in TaskIds :
        /\ pc[a] = "done" /\ tasks[a].status = "completed"
        /\ pc[b] = "done" /\ tasks[b].status = "failed"

\* the steps of one provider, in the order _sync_dccs sets current_step
StepOrder == <<"downloading", "extracting", "cutover", "cleanup", "materializing">>

\* step b is the one that follows step a for the same provider
NextStep(a, b) == \E i \in 1..(Len(StepOrder) - 1) : StepOrder[i] = a /\ StepOrder[i + 1] = b

\* C37: a running task works on dcc_names[idx]; its current_step moves only
\* to the next step of the same provider, or from materializing to
\* downloading of the next provider of the list (from no step: of the first
\* one).  Records of provider d change only by a running task whose current
\* provider is d and whose step is cutover.  When a step fails the task is
\* failed, takes no further pipeline step, and (no other task having
\* started) the records of the providers later in its list are as they
\* were.
C37_ProvidersInOrderStopAtFailure ==
    [][\A t \in DOMAIN tasks :
          LET rec == tasks[t]
              rec2 == tasks'[t]
          IN  /\ (rec.status = "running" /\ rec2.status = "running"
                  /\ <<rec2.current_dcc, rec2.current_step>> # <<rec.current_dcc, rec.current_step>>)
                    => \/ /\ NextStep(rec.current_step, rec2.current_step)
                          /\ rec2.current_dcc = rec.current_dcc
                          /\ idx'[t] = idx[t]
                       \/ /\ rec.current_step \in {"None", "materializing"}
                          /\ rec2.current_step = "downloading"
                          /\ idx'[t] = idx[t] + 1
                          /\ rec2.current_dcc = rec.dcc_names[idx'[t]]
              /\ rec2.status = "running" /\ rec2.current_step # "None"
                    => rec2.current_dcc = rec2.dcc_names[idx'[t]]
              /\ rec.status = "failed"
                    => rec2 = rec /\ pc[t] \in {"release", "done"} /\ pc'[t] \in {"release", "done"}
              /\ (rec.status = "running" /\ rec2.status = "failed"
                  /\ \A u \in TaskIds \ {t} : u \notin DOMAIN tasks)
                    => \A i \in (idx[t] + 1)..Len(rec.dcc_names), c \in Range(Collections) :
                           (\A j \in 1..idx[t] : rec.dcc_names[j] # rec.dcc_names[i])
                              => store'[c][rec.dcc_names[i]] = {"old"}]_vars
    /\ [][\A c \in Range(Collections), d \in DCC_CONFIG :
             store'[c][d] # store[c][d]
                => \E t \in DOMAIN tasks :
                       /\ tasks[t].status = "running"
                       /\ tasks[t].current_dcc = d
                       /\ tasks[t].current_step = "cutover"]_vars

\* a task failed while it replaced the records of the first of its two
\* providers, and the records of the second are as they were
C37_Witness ==
    \E t \in DOMAIN tasks :
        /\ tasks[t].status = "failed"
        /\ Len(tasks[t].dcc_names) = 2
        /\ \A u \in TaskIds \ {t} : u \notin DOMAIN tasks
        /\ store["file"][tasks[t].dcc_names[1]] # {"old"}
        /\ \A c \in Range(Collections) : store[c][tasks[t].dcc_names[2]] = {"old"}

\* the step is the release_sync_lock(a) that ends _run_sync of task a
ReleaseStep(a) == pc[a] = "release" /\ pc'[a] = "done"

\* C39: when task b holds the sync lock it took over from task a, the
\* release_sync_lock(a) of a leaves the document as it is (active, task_id
\* = b), and while b executes the document stays active with task_id = b
\* until b's own release or a takeover of b's lock once that is stale.
C39_LateReleaseKeepsTakenOverLock ==
    [][\A b \in TaskIds :
          (/\ InPipeline(b)
           /\ SYNC_LOCK_ID \in DOMAIN locks
           /\ SyncDoc.active /\ SyncDoc.task_id = b)
              => /\ \A a \in TaskIds \ {b} :
                        ReleaseStep(a) => locks'[SYNC_LOCK_ID] = SyncDoc
                 /\ \/ locks'[SYNC_LOCK_ID].active /\ locks'[SYNC_LOCK_ID].task_id = b
                    \/ ReleaseStep(b)
                    \/ \E c \in TaskIds \ {b} :
                           /\ AcquireStep(c)
                           /\ now[c] - SyncDoc.started_at > STALE_LOCK_THRESHOLD]_vars

\* Task a has released after task b took its lock over (the document was
\* never marked completed: b did not find it released); b still executes
\* under its fresh stamp and the document is active with task_id = b.
C39_Witness ==
    \E a, b \in TaskIds :
        /\ a # b
        /\ pc[a] = "done" /\ a \in DOMAIN tasks
        /\ InPipeline(b)
        /\ SyncDoc.active /\ SyncDoc.task_id = b
        /\ "completed_at" \notin DOMAIN SyncDoc
        /\ utcnow - SyncDoc.started_at <= STALE_LOCK_THRESHOLD

\* The states of the sync lock document: absent, or any combination of
\* active (true, false, missing) and started_at (a clock reading, missing).
LockDocs ==
    LET base == [task_id |-> 0]
        actives == {<<>>} \cup {[active |-> a] : a \in BOOLEAN}
        stamps == {<<>>} \cup {[started_at |-> n] : n \in 0..MaxNow}
    IN  {a @@ s @@ base : a \in actives, s \in stamps}

LockCollections == {<<>>} \cup {SYNC_LOCK_ID :> doc : doc \in LockDocs}

\* a task id no task has
NewTaskId == NumTasks + 1

\* try_acquire_sync_lock(NewTaskId, ...) on collection coll at clock reading
\* n returns True (it neither returns False nor raises)
WouldAcquire(coll, n) ==
    LET r == FindOneAndUpdateSync(coll, NewTaskId, <<>>, n)
    IN  ~r.raised /\ r.coll[SYNC_LOCK_ID].task_id = NewTaskId

\* is_sync_running() is False exactly when an acquire by a new task id
\* would succeed, on collection coll at every clock reading
Agree(coll) ==
    \A n \in 0..MaxNow :
        ~is_sync_running(find_one(coll, SYNC_LOCK_ID), n) <=> WouldAcquire(coll, n)

C35_ReplacementUnderBothLocks ==
    [][\A c \in Range(Collections), d \in DCC_CONFIG :
          store'[c][d] # store[c][d]
             => \E t \in DOMAIN tasks :
                    /\ SYNC_LOCK_ID \in DOMAIN locks
                    /\ SyncDoc.active /\ SyncDoc.task_id = t
                    /\ tasks[t].current_dcc = d
                    /\ tasks[t].current_step = "cutover"
                    /\ CutoverActive(locks)
                    /\ locks[CUTOVER_LOCK_ID].dcc = d]_vars

\* caller c has been granted a permit
Granted(c) == calls[c].granted_at # NoTime

\* the permits granted at a time in the window [s, s + interval)
GrantsInWindow(s) ==
    {c \in Callers : /\ Granted(c)
                     /\ s <= calls[c].granted_at
                     /\ calls[c].granted_at < s + sem.interval}

\* the permits granted and not yet returned
Outstanding == {c \in Callers : Granted(c) /\ calls[c].releases = 0}

\* C31: the available permits are the limit less the permits granted and
\* not yet returned, so within 0..limit; a permit is returned at most once
\* and not before interval has passed since it was granted, whether its
\* caller is still inside the rate_limit block or has left it; leaving the
\* block changes nothing of the semaphore; and in no window of length
\* interval are more than limit permits granted.
C31_PermitsReturnByTimeOnly ==
    /\ [](/\ sem.value \in 0..sem.limit
          /\ sem.value = sem.limit - Cardinality(Outstanding)
          /\ \A c \in Callers :
                 /\ calls[c].releases <= 1
                 /\ calls[c].releases = 1
                       => Granted(c) /\ sem_time >= calls[c].granted_at + sem.interval
          /\ \A s \in 0..MaxSemTime : Cardinality(GrantsInWindow(s)) <= sem.limit)
    /\ [][\A c \in Callers :
             /\ (calls[c].pc = "inside" /\ calls'[c].pc = "left")
                   => sem' = sem /\ calls'[c].releases = calls[c].releases
             /\ calls'[c].releases # calls[c].releases
                   => /\ sem_time >= calls[c].granted_at + sem.interval
                      /\ sem'.value = sem.value + 1
                      /\ calls'[c].pc = calls[c].pc]_vars

\* One caller is still inside its block and its permit has been returned;
\* another has left its block and its permit has not been returned; a third
\* waits in acquire because no permit is available.
C31_Witness ==
    \E c1, c2, c3 \in Callers :
        /\ calls[c1].pc = "inside" /\ calls[c1].releases = 1
        /\ calls[c2].pc = "left" /\ calls[c2].releases = 0
        /\ calls[c3].pc = "acquire" /\ sem.value = 0

\* a call of download_file has returned or raised
DownloadEnded == dl.pc \in {"returned", "raised"}

\* C32: download_file makes at most max_retries attempts.  After attempt k
\* has failed with an error it catches (aiohttp.ClientError, OSError) and k
\* is not the last attempt it sleeps 2^k seconds and makes attempt k + 1;
\* after the first attempt that succeeds it returns the destination without
\* another attempt; when the last attempt fails the error is raised.  It
\* returns the destination only when its last attempt succeeded, and every
\* failed attempt before it was followed by its wait.
C32_BoundedRetriesWithBackoff ==
    /\ [](/\ dl.attempt < dl.max_retries \/ dl.max_retries = 0
          /\ Len(dl.failures) <= dl.max_retries
          /\ dl.waits = [k \in 1..Len(dl.waits) |-> Pow2(k - 1)]
          /\ dl.pc = "attempt" => Len(dl.failures) = dl.attempt /\ Len(dl.waits) = dl.attempt
          /\ (dl.pc = "returned" /\ dl.result = "destination")
                => Len(dl.failures) = dl.attempt /\ Len(dl.waits) = dl.attempt
          /\ (dl.pc = "returned" /\ dl.max_retries > 0) => dl.result = "destination"
          /\ (dl.pc = "raised" /\ dl.result \in Caught)
                => /\ dl.attempt = dl.max_retries - 1
                   /\ Len(dl.failures) = dl.max_retries
                   /\ dl.failures[dl.max_retries] = dl.result)
    /\ [][/\ (dl.pc = "attempt" /\ dl'.pc = "sleep")
                => /\ dl'.wait_time = Pow2(dl.attempt)
                   /\ dl.attempt < dl.max_retries - 1
          /\ (dl.pc = "sleep" /\ dl'.pc # "sleep" /\ dl'.result # "CancelledError")
                => dl'.pc = "attempt" /\ dl'.attempt = dl.attempt + 1
          /\ DownloadEnded => dl' = dl]_vars

\* the first two attempts failed, waits of 1 and 2 seconds followed them,
\* and the third attempt failed too: its error was raised
C32_Witness ==
    /\ dl.pc = "raised"
    /\ dl.max_retries = 3
    /\ dl.waits = <<1, 2>>
    /\ dl.failures = <<"ClientResponseError", "OSError", "ClientError">>
    /\ dl.result = "ClientError"

\* C34: a task whose start_sync acquired the sync lock reaches the end of
\* _run_sync; the release_sync_lock(task.id) that ends _run_sync runs after
\* the task status was set to completed or failed, and it sets active =
\* false on the document if that still carries the task's id; so a task
\* that has ended and whose id is on the document has left it inactive.
C34_AcceptedTaskReleasesLock ==
    /\ \A t \in TaskIds : (pc[t] = "run") ~> (pc[t] = "done")
    /\ [][\A t \in TaskIds :
             ReleaseStep(t)
                => /\ tasks[t].status \in {"completed", "failed"}
                   /\ SyncDoc.task_id = t
                         => /\ ~locks'[SYNC_LOCK_ID].active
                            /\ locks'[SYNC_LOCK_ID].task_id = t]_vars
    /\ [](\A t \in TaskIds :
             (pc[t] = "done" /\ t \in DOMAIN tasks /\ SyncDoc.task_id = t)
                => ~SyncDoc.active)

\* a task that failed inside its swap section has ended, and the lock
\* document, still with its id, is inactive
C34_Witness ==
    \E t \in TaskIds :
        /\ pc[t] = "done" /\ tasks[t].status = "failed"
        /\ SyncDoc.task_id = t /\ ~SyncDoc.active
        /\ store["dcc"][tasks[t].dcc_names[1]] = {}

====
